---- MODULE Spec2Model ----
(***************************************************************************)
(* Stock ledger and booking transactions of the stockback server.          *)
(*                                                                         *)
(* The handlers of Router/Godown.router.js (createBooking, editBooking,    *)
(* deleteBooking, convertChallanToBill), Controller/Godown.controller.js   *)
(* (takeStockFromGodown, addStockToExisting, addStockToGodown) and the     *)
(* older createBooking of Controller/Booking.controller.js run as          *)
(* concurrent requests against one PostgreSQL database.                    *)
(*                                                                         *)
(* Storage model (READ COMMITTED): the variables stock, history, bookings  *)
(* and challans hold the committed rows.  A handler that runs between      *)
(* BEGIN and COMMIT keeps its uncommitted row versions in its own record   *)
(* (wstock, whist); COMMIT publishes them, ROLLBACK drops them.  A row     *)
(* written or selected FOR UPDATE by an open transaction is locked until   *)
(* that transaction ends; a statement that needs a locked row is not       *)
(* enabled until the lock is free.  Statements sent through pool.query     *)
(* are committed one by one.                                               *)
(***************************************************************************)
EXTENDS Integers, Sequences, FiniteSets, Bags, TLC

\* ------------------------------------------------------------------ bounds
MaxItems == 2      \* line items processed for one request
MaxCalls == 2      \* handler calls started in one behaviour of Spec, SpecLegacy

\* ------------------------------------------------------------- value sets
Procs == {"p1", "p2"}          \* concurrent requests (pool clients)
StockIds == {1, 2, 3}          \* ids a request may name; row 3 is absent at start
ChallanIds == {1, 2}           \* ids a request may name; challan 2 does not exist
BookingIds == {1, 2}           \* ids a request may name; booking 2 is absent at start
TakeCases == {4, 7}            \* cases_taken of takeStockFromGodown
AddCases == {5}                \* cases_added of addStockToExisting / addStockToGodown

\* Line items a request may carry: id, cases and per_case are all supplied by
\* the client.  The second names a per_case that is not the row's, the fourth
\* a row that does not exist, the last one is malformed (cases missing).
ItemSet ==
  { [id |-> 1, cases |-> 7, per_case |-> 12],
    [id |-> 1, cases |-> 4, per_case |-> 10],
    [id |-> 2, cases |-> 4, per_case |-> 10],
    [id |-> 3, cases |-> 4, per_case |-> 12],
    [id |-> 1, cases |-> 0, per_case |-> 12] }

\* one row of public.stock_history
HistoryEntry(s, a, c, total) ==
  [stock_id |-> s, action |-> a, cases |-> c, per_case_total |-> total]

\* Rows of public.stock when the model starts: row 1 was created with 14
\* cases of which booking 1 took 4, row 2 was created with 4 cases.
InitStock ==
  (1 :> [current_cases |-> 10, taken_cases |-> 4, per_case |-> 12]) @@
  (2 :> [current_cases |-> 4, taken_cases |-> 0, per_case |-> 10])

InitHistory ==
  SetToBag({ HistoryEntry(1, "added", 14, 168), HistoryEntry(2, "added", 4, 40),
             HistoryEntry(1, "taken", 4, 48) })

\* per_case of the product tables, read by addStockToGodown.
CatalogPerCase == (1 :> 12) @@ (2 :> 10) @@ (3 :> 12)

EmptyRows == [s \in {} |-> 0]

\* godown_id of each stock row: rows 1 and 2 are kept in godown 1, row 3
\* (when it is created) in godown 2
GodownOf == (1 :> 1) @@ (2 :> 1) @@ (3 :> 2)

GodownIds == {1, 2}

\* line items with a rate and a discount, as a request or a challan carries
\* them
MoneyItems ==
  { [id |-> 1, cases |-> 4, per_case |-> 12,
     rate_per_box |-> [n |-> 100, d |-> 1], discount_percent |-> 0],
    [id |-> 1, cases |-> 1, per_case |-> 1,
     rate_per_box |-> [n |-> 21, d |-> 2], discount_percent |-> 0],
    [id |-> 2, cases |-> 2, per_case |-> 10,
     rate_per_box |-> [n |-> 50, d |-> 1], discount_percent |-> 10] }

\* the fields of a request body (and of a challan row) that the totals are
\* computed from
Requests ==
  [ items : UNION {[1 .. k -> MoneyItems] : k \in 1 .. MaxItems},
    additional_discount : {0, 10},
    packing_percent : {3},
    taxable_value : {0, 50},
    apply_processing_fee : BOOLEAN,
    apply_cgst : BOOLEAN, apply_sgst : BOOLEAN, apply_igst : BOOLEAN,
    challan_number : {[prefix |-> "DC-", digits |-> <<2>>]} ]

\* 4 cases of 12 at rate 100 with the defaults of createBooking
PlainRequest ==
  [ items |-> <<[id |-> 1, cases |-> 4, per_case |-> 12,
                 rate_per_box |-> [n |-> 100, d |-> 1], discount_percent |-> 0]>>,
    additional_discount |-> 0, packing_percent |-> 3, taxable_value |-> 0,
    apply_processing_fee |-> FALSE,
    apply_cgst |-> FALSE, apply_sgst |-> FALSE, apply_igst |-> FALSE,
    challan_number |-> [prefix |-> "DC-", digits |-> <<2>>] ]

VARIABLES
  stock,          \* committed rows of public.stock: id -> row
  history,        \* committed rows of public.stock_history (a bag of entries)
  bookings,       \* committed rows of public.bookings
  challans,       \* committed rows of delivery: id -> row
  seq,            \* last value issued by getNextSequenceNumber
  nextBookingId,  \* BIGSERIAL of public.bookings
  items_col,      \* how pg returns bookings.items: "jsonb" (parsed) or "text"
  pdfs,           \* paths under uploads/pdfs that hold a booking's document
  godowns,        \* ids of the rows of public.godown
  calc,           \* a request's amounts and the totals the handlers compute
  proc,           \* per request: position and local values of its handler
  started         \* number of handler calls started so far

vars == <<stock, history, bookings, challans, seq, nextBookingId, items_col,
          godowns, calc, pdfs, proc, started>>

\* --------------------------------------------------------- pure functions
RECURSIVE ToDigits(_)
\* String(n): the decimal digits of n
ToDigits(n) == IF n < 10 THEN <<n>> ELSE Append(ToDigits(n \div 10), n % 10)

RECURSIVE PadStart(_, _)
\* str.padStart(len, '0')
PadStart(d, len) == IF Len(d) >= len THEN d ELSE PadStart(<<0>> \o d, len)

\* the value getNextSequenceNumber() issues: an atomic counter, never the
\* same value to two callers
getNextSequenceNumber == seq + 1

\* `BILL-${sequenceNumber}`
SequenceBillNumber(n) == [prefix |-> "BILL-", digits |-> ToDigits(n)]

\* generateBillNumber: `BILL-${String(count + 1).padStart(3, '0')}`
generateBillNumber(count) ==
  [prefix |-> "BILL-", digits |-> PadStart(ToDigits(count + 1), 3)]

\* challan.challan_number.replace('DC-', '') prefixed with BILL-
ChallanBillNumber(cn) ==
  [prefix |-> "BILL-",
   digits |-> IF cn.prefix = "DC-" THEN cn.digits ELSE <<>> ]

\* ------------------------------------------------------------- amounts
\* A JavaScript number that holds an amount is modelled as the exact
\* fraction n / d in lowest terms with d > 0.
RECURSIVE Gcd(_, _)
Gcd(a, b) == IF b = 0 THEN a ELSE Gcd(b, a % b)

Abs(x) == IF x < 0 THEN 0 - x ELSE x

Rat(n, d) == LET g == Gcd(Abs(n), d) IN [n |-> n \div g, d |-> d \div g]

Whole(k) == [n |-> k, d |-> 1]

\* x + y
Plus(x, y) ==
  LET g == Gcd(x.d, y.d)
  IN Rat(x.n * (y.d \div g) + y.n * (x.d \div g), (x.d \div g) * y.d)

\* x - y
Minus(x, y) == Plus(x, [n |-> 0 - y.n, d |-> y.d])

\* x * y
Times(x, y) ==
  LET g1 == Gcd(Abs(x.n), y.d)
      g2 == Gcd(Abs(y.n), x.d)
  IN Rat((x.n \div g1) * (y.n \div g2), (x.d \div g2) * (y.d \div g1))

\* x * (p / 100)
PercentOf(x, p) == Times(x, Rat(p, 100))

\* Math.round(x): the nearest integer, a half goes up
MathRound(x) == (x.n \div x.d) + (IF 2 * (x.n % x.d) >= x.d THEN 1 ELSE 0)

\* parseFloat(x.toFixed(2)): the nearest multiple of 1/100, a half goes away
\* from zero
toFixed2(x) ==
  LET q == Abs(x.n) \div x.d
      r == Abs(x.n) % x.d
      m == 100 * q + ((200 * r + x.d) \div (2 * x.d))
  IN Rat(IF x.n < 0 THEN 0 - m ELSE m, 100)

\* `const finalAmt = amountBefore - discountAmt` of one line item
finalAmt(item) ==
  LET qty == item.cases * item.per_case
      amountBefore == Times(Whole(qty), item.rate_per_box)
      discountAmt == PercentOf(amountBefore, item.discount_percent)
  IN Minus(amountBefore, discountAmt)

RECURSIVE SumAmounts(_)
\* the sum of a sequence of amounts
SumAmounts(amounts) ==
  IF amounts = <<>> THEN Whole(0)
  ELSE Plus(Head(amounts), SumAmounts(Tail(amounts)))

RECURSIVE TotalCases(_)
\* totalCases += cases
TotalCases(items) ==
  IF items = <<>> THEN 0 ELSE Head(items).cases + TotalCases(Tail(items))

\* createBooking: the fee is charged whatever apply_processing_fee says
PackingChargesAlways(req, subtotal) == PercentOf(subtotal, req.packing_percent)

\* createBooking: packingCharges
PackingCharges(req, subtotal) ==
  IF req.apply_processing_fee THEN PercentOf(subtotal, req.packing_percent)
  ELSE Whole(0)

\* createBooking: every flag adds its own component
GstEveryFlag(req, netTaxable) ==
  [igst |-> IF req.apply_igst THEN PercentOf(netTaxable, 18) ELSE Whole(0),
   cgst |-> IF req.apply_cgst THEN PercentOf(netTaxable, 9) ELSE Whole(0),
   sgst |-> IF req.apply_sgst THEN PercentOf(netTaxable, 9) ELSE Whole(0)]

\* createBooking: `if (apply_igst) ... else if (apply_cgst && apply_sgst) ...`
Gst(req, netTaxable) ==
  IF req.apply_igst
  THEN [igst |-> PercentOf(netTaxable, 18), cgst |-> Whole(0), sgst |-> Whole(0)]
  ELSE IF req.apply_cgst /\ req.apply_sgst
  THEN [igst |-> Whole(0), cgst |-> PercentOf(netTaxable, 9),
        sgst |-> PercentOf(netTaxable, 9)]
  ELSE [igst |-> Whole(0), cgst |-> Whole(0), sgst |-> Whole(0)]

\* convertChallanToBill: the challan item's own discount is kept and taken
\* off the amount
ItemWithSerialDiscounted(item, idx) ==
  [s_no |-> idx + 1, cases |-> item.cases, per_case |-> item.per_case,
   quantity |-> item.cases * item.per_case,
   rate_per_box |-> item.rate_per_box,
   discount_percent |-> item.discount_percent,
   amount |-> toFixed2(finalAmt(item))]

\* convertChallanToBill: one element of itemsWithSerial
ItemWithSerial(item, idx) ==
  [s_no |-> idx + 1, cases |-> item.cases, per_case |-> item.per_case,
   quantity |-> item.cases * item.per_case,
   rate_per_box |-> item.rate_per_box,
   discount_percent |-> 0,
   amount |-> toFixed2(Times(Whole(item.cases * item.per_case),
                             item.rate_per_box))]

RECURSIVE SumCases(_, _, _)
\* sum of cases over the entries of the sequence h for stock row s with the
\* given action
SumCases(h, s, a) ==
  IF h = <<>> THEN 0
  ELSE (IF h[1].stock_id = s /\ h[1].action = a THEN h[1].cases ELSE 0)
       + SumCases(Tail(h), s, a)

RECURSIVE SumOver(_, _)
\* sum of b[e] * e.cases over the entries e of the set es
SumOver(b, es) ==
  IF es = {} THEN 0
  ELSE LET e == CHOOSE x \in es : TRUE
       IN b[e] * e.cases + SumOver(b, es \ {e})

\* SUM(cases) over the rows of the history table b for stock row s with the
\* given action
HistoryCases(b, s, a) ==
  SumOver(b, {e \in BagToSet(b) : e.stock_id = s /\ e.action = a})

RECURSIVE Inserted(_)
\* the rows a sequence of INSERT INTO public.stock_history adds to the table
Inserted(h) ==
  IF h = <<>> THEN EmptyBag ELSE SetToBag({Head(h)}) (+) Inserted(Tail(h))

\* ------------------------------------------------------ request records
Idle ==
  [pc |-> "idle", op |-> "none", outcome |-> "none", target |-> 0,
   shouldDeductStock |-> FALSE, from_challan |-> FALSE, challan_id |-> 0,
   items |-> <<>>, wstock |-> EmptyRows, whist |-> <<>>,
   bill |-> [prefix |-> "", digits |-> <<>>], rd |-> 0, n |-> 0,
   failed_at |-> 0, client |-> "none", releases |-> 0, late |-> FALSE]

\* the record of a handler that has sent its response
Finished(o, out, k) ==
  [Idle EXCEPT !.pc = "done", !.op = o, !.outcome = out, !.failed_at = k]

InTx(p) ==
  proc[p].pc \in {"cb_items", "lcb_items", "eb_items", "cv_finish",
                  "cb_commit", "eb_commit", "cv_commit"}

\* client p has no request under way and can send one
CanStart(p) == proc[p].pc \in {"idle", "done"}

\* ------------------------------------------------------------- row locks
\* requests whose open transaction holds the lock of stock row s
LockHolders(s) == {q \in Procs : s \in DOMAIN proc[q].wstock}

\* the row is read without FOR UPDATE: nothing to wait for
StockLockIgnored(p, s) == TRUE

\* SELECT ... FOR UPDATE / UPDATE on stock row s can proceed for p
StockLockFree(p, s) == LockHolders(s) \subseteq {p}

\* the row version p's statements see: its own uncommitted one, else committed
RowSeen(p, s) == IF s \in DOMAIN proc[p].wstock THEN proc[p].wstock[s] ELSE stock[s]

\* no other request holds the lock of booking row b (SELECT ... FOR UPDATE
\* of editBooking)
BookingLockFree(p, b) ==
  \A q \in Procs \ {p} :
    ~(proc[q].pc \in {"eb_items", "eb_commit"} /\ proc[q].target = b)

\* the challan is read without FOR UPDATE: nothing to wait for
ChallanLockIgnored(p, c) == TRUE

\* no other request holds the lock of challan row c (SELECT ... FOR UPDATE
\* of convertChallanToBill)
ChallanLockFree(p, c) ==
  \A q \in Procs \ {p} :
    ~(proc[q].pc \in {"cv_finish", "cv_commit"} /\ proc[q].target = c)

\* ------------------------------------------------------------ deduction
\* the stock check is left out
InsufficientNever(cases, current_cases) == FALSE

\* the comparison is written with >=: a request for all that is left is refused
InsufficientOrEqual(cases, current_cases) == cases >= current_cases

\* `cases > current_cases`
Insufficient(cases, current_cases) == cases > current_cases

\* UPDATE public.stock SET current_cases = $1, taken_cases = $2 ...
DeductedRow(row, cases) ==
  [row EXCEPT !.current_cases = row.current_cases - cases,
              !.taken_cases = row.taken_cases + cases]

\* `!stock_id || !productname || !brand || !cases || !per_case || ...`
InvalidItem(item) == item.id = 0 \/ item.cases = 0 \/ item.per_case = 0

\* the serial number is the 0-based loop index itself
SnapshotItemFromZero(item, idx) ==
  [s_no |-> idx, cases |-> item.cases, per_case |-> item.per_case]

\* the item snapshot pushed to processedItems: the stock id is not copied
SnapshotItem(item, idx) ==
  [s_no |-> idx + 1, cases |-> item.cases, per_case |-> item.per_case]

\* `const { id: stock_id, cases } = item` on a stored snapshot item
SnapshotStockId(item) == IF "id" \in DOMAIN item THEN item.id ELSE 0

\* the statements were sent outside the transaction: ROLLBACK undoes nothing
RollbackKeepsWrites(p, out, k) ==
  /\ proc' = [proc EXCEPT ![p] = Finished(proc[p].op, out, k)]
  /\ stock' = proc[p].wstock @@ stock
  /\ history' = history (+) Inserted(proc[p].whist)
  /\ UNCHANGED <<bookings, challans, nextBookingId>>

\* ROLLBACK: the uncommitted versions are dropped and the locks released
Rollback(p, out, k) ==
  /\ proc' = [proc EXCEPT ![p] = Finished(proc[p].op, out, k)]
  /\ UNCHANGED <<stock, history, bookings, challans, nextBookingId>>

\* the history INSERTs were sent on another connection and are lost: only the
\* stock rows are published
CommitStockWithoutHistory(p) ==
  /\ stock' = proc[p].wstock @@ stock
  /\ history' = history

\* COMMIT of the stock part: uncommitted versions and history become visible
CommitStock(p) ==
  /\ stock' = proc[p].wstock @@ stock
  /\ history' = history (+) Inserted(proc[p].whist)


NoChallanNumber == [prefix |-> "", digits |-> <<>>]

\* `${bill_number}.pdf`: the document of a new booking is named after its
\* bill number
BillPdf(bill) == bill

\* `bill_${id}_${timestamp}.pdf`: the document editBooking regenerates (the
\* timestamp is left out: the documents of successive edits of one booking
\* share one model path)
EditPdf(id) == [prefix |-> "bill_", digits |-> <<id>>]

\* one row of public.bookings.  src_challan records the challan_id of the
\* request that inserted the row (the row itself stores only from_challan).
BookingRow(id, bill, items, fc, cn, src) ==
  [id |-> id, bill_number |-> bill, items |-> items, from_challan |-> fc,
   challan_number |-> cn, src_challan |-> src, pdf_path |-> BillPdf(bill)]

\* ---------------------------------------------------------------- Init
\* Booking 1 is a direct sale of 4 cases of row 1 made by createBooking with
\* sequence number 1; challan 1 got the next sequence number.
InitBookings ==
  { BookingRow(1, SequenceBillNumber(1),
               <<[s_no |-> 1, cases |-> 4, per_case |-> 12]>>, FALSE,
               NoChallanNumber, 0) }

InitChallans ==
  (1 :> [challan_number |-> [prefix |-> "DC-", digits |-> <<2>>],
         converted_to_bill |-> FALSE,
         items |-> <<[cases |-> 4, per_case |-> 12]>>])

Init ==
  /\ stock = InitStock
  /\ history = InitHistory
  /\ bookings = InitBookings
  /\ challans = InitChallans
  /\ seq = 2
  /\ nextBookingId = 2
  /\ items_col \in {"jsonb", "text"}
  /\ pdfs = {row.pdf_path : row \in bookings}
  /\ godowns = GodownIds
  /\ calc = [req |-> PlainRequest, bill |-> << >>]
  /\ proc = [p \in Procs |-> Idle]
  /\ started = 0

\* ------------------------------------------- createBooking (Godown.router.js)
\* One pass of the for-loop over items: validation, then for a direct bill
\* the locked read, the stock check, the UPDATE and the history INSERT.  The
\* item of each pass is drawn when the pass runs; a pass that needs a row
\* locked by another transaction waits (is not enabled).
ProcessItem(p, item, deduct) ==
  LET r == proc[p]
      k == Len(r.items) + 1
      row == RowSeen(p, item.id)
  IN
  IF InvalidItem(item) THEN Rollback(p, "invalid_item", k)
  ELSE IF ~deduct THEN
    /\ proc' = [proc EXCEPT ![p].items = Append(@, SnapshotItem(item, k - 1))]
    /\ UNCHANGED <<stock, history, bookings, challans, nextBookingId>>
  ELSE IF item.id \notin DOMAIN stock THEN Rollback(p, "not_found", k)
  ELSE
    /\ StockLockFree(p, item.id)
    /\ IF Insufficient(item.cases, row.current_cases)
       THEN Rollback(p, "insufficient", k)
       ELSE
         /\ proc' = [proc EXCEPT
              ![p].items = Append(@, SnapshotItem(item, k - 1)),
              ![p].wstock = (item.id :> DeductedRow(row, item.cases)) @@ @,
              ![p].whist = Append(@, HistoryEntry(item.id, "taken", item.cases,
                                                  item.cases * item.per_case))]
         /\ UNCHANGED <<stock, history, bookings, challans, nextBookingId>>

\* destructuring, header validation (customer_name, items.length, to,
\* through), BEGIN, bill number
createBooking_Start(p, hdr_ok, is_direct_bill, from_challan, challan_id) ==
  /\ CanStart(p)
  /\ started' = started + 1
  /\ IF ~hdr_ok
     THEN /\ proc' = [proc EXCEPT ![p] = Finished("createBooking", "invalid", 0)]
          /\ UNCHANGED seq
     ELSE /\ seq' = getNextSequenceNumber
          /\ proc' = [proc EXCEPT ![p] =
               [Idle EXCEPT !.pc = "cb_items", !.op = "createBooking",
                            !.shouldDeductStock = (is_direct_bill /\ ~from_challan),
                            !.from_challan = from_challan,
                            !.challan_id = IF from_challan THEN challan_id ELSE 0,
                            !.bill = SequenceBillNumber(getNextSequenceNumber)]]
  /\ UNCHANGED <<stock, history, bookings, challans, nextBookingId,
                 items_col, godowns, calc, pdfs>>

createBooking_Item(p, item) ==
  /\ proc[p].pc = "cb_items"
  /\ Len(proc[p].items) < MaxItems
  /\ ProcessItem(p, item, proc[p].shouldDeductStock)
  /\ UNCHANGED <<seq, items_col, godowns, calc, pdfs, started>>

\* the bill is committed without the UPDATE of delivery
createBooking_FinishUnmarked(p) ==
  LET r == proc[p] IN
  /\ r.pc = "cb_items"
  /\ Len(r.items) >= 1
  /\ bookings' = bookings \cup
       {BookingRow(nextBookingId, r.bill, r.items, r.from_challan,
                   NoChallanNumber, r.challan_id)}
  /\ nextBookingId' = nextBookingId + 1
  /\ challans' = challans
  /\ pdfs' = pdfs \cup {BillPdf(r.bill)}
  /\ CommitStock(p)
  /\ proc' = [proc EXCEPT ![p] = Finished(r.op, "ok", 0)]
  /\ UNCHANGED <<seq, items_col, godowns, calc, started>>

\* after the last item: totals, document, INSERT INTO bookings, challan
\* mark, COMMIT
createBooking_Finish(p) ==
  LET r == proc[p]
      mark == r.from_challan /\ r.challan_id # 0
  IN
  /\ r.pc = "cb_items"
  /\ Len(r.items) >= 1
  /\ mark => ChallanLockFree(p, r.challan_id)
  /\ bookings' = bookings \cup
       {BookingRow(nextBookingId, r.bill, r.items, r.from_challan,
                   NoChallanNumber, r.challan_id)}
  /\ nextBookingId' = nextBookingId + 1
  /\ challans' = IF mark /\ r.challan_id \in DOMAIN challans
                 THEN [challans EXCEPT ![r.challan_id].converted_to_bill = TRUE]
                 ELSE challans
  /\ pdfs' = pdfs \cup {BillPdf(r.bill)}
  /\ CommitStock(p)
  /\ proc' = [proc EXCEPT ![p] = Finished(r.op, "ok", 0)]
  /\ UNCHANGED <<seq, items_col, godowns, calc, started>>

\* the catch block answers 500 without ROLLBACK and the released client's
\* statements get committed
TxErrorCommits(p) ==
  /\ InTx(p)
  /\ RollbackKeepsWrites(p, "error", Len(proc[p].items) + 1)
  /\ UNCHANGED <<seq, items_col, godowns, calc, pdfs, started>>

\* a statement or the document generation throws inside a transaction:
\* the catch block issues ROLLBACK
TxError(p) ==
  /\ InTx(p)
  /\ Rollback(p, "error", Len(proc[p].items) + 1)
  /\ UNCHANGED <<seq, items_col, godowns, calc, pdfs, started>>

\* --------------------------------- takeStockFromGodown (Godown.controller.js)
takeStockFromGodown(p, s, c, fails) ==
  /\ CanStart(p)
  /\ started' = started + 1
  /\ IF c <= 0 THEN
       /\ proc' = [proc EXCEPT ![p] = Finished("takeStockFromGodown", "invalid", 0)]
       /\ UNCHANGED <<stock, history>>
     ELSE IF s \notin DOMAIN stock THEN
       /\ proc' = [proc EXCEPT ![p] = Finished("takeStockFromGodown", "not_found", 0)]
       /\ UNCHANGED <<stock, history>>
     ELSE
       /\ StockLockFree(p, s)
       /\ IF Insufficient(c, stock[s].current_cases) THEN
            /\ proc' = [proc EXCEPT ![p] =
                 Finished("takeStockFromGodown", "insufficient", 0)]
            /\ UNCHANGED <<stock, history>>
          ELSE IF fails THEN
            /\ proc' = [proc EXCEPT ![p] = Finished("takeStockFromGodown", "error", 0)]
            /\ UNCHANGED <<stock, history>>
          ELSE
            /\ stock' = [stock EXCEPT ![s] = DeductedRow(stock[s], c)]
            /\ history' = history (+)
                 Inserted(<<HistoryEntry(s, "taken", c, c * stock[s].per_case)>>)
            /\ proc' = [proc EXCEPT ![p] = Finished("takeStockFromGodown", "ok", 0)]
  /\ UNCHANGED <<bookings, challans, seq, nextBookingId, items_col, godowns, calc, pdfs>>

\* ---------------------------------- addStockToExisting (Godown.controller.js)
\* validation and the unlocked SELECT current_cases, per_case
addStockToExisting_Start(p, s, n) ==
  /\ CanStart(p)
  /\ started' = started + 1
  /\ IF n <= 0 THEN
       proc' = [proc EXCEPT ![p] = Finished("addStockToExisting", "invalid", 0)]
     ELSE IF s \notin DOMAIN stock THEN
       proc' = [proc EXCEPT ![p] = Finished("addStockToExisting", "not_found", 0)]
     ELSE
       proc' = [proc EXCEPT ![p] =
         [Idle EXCEPT !.pc = "ae_write", !.op = "addStockToExisting",
                      !.target = s, !.n = n, !.rd = stock[s].current_cases]]
  /\ UNCHANGED <<stock, history, bookings, challans, seq, nextBookingId,
                 items_col, godowns, calc, pdfs>>

\* UPDATE public.stock SET current_cases = $1 with newCases = current_cases + n
addStockToExisting_Write(p) ==
  LET r == proc[p] IN
  /\ r.pc = "ae_write"
  /\ StockLockFree(p, r.target)
  /\ stock' = [stock EXCEPT ![r.target].current_cases = r.rd + r.n]
  /\ proc' = [proc EXCEPT ![p].pc = "ae_hist"]
  /\ UNCHANGED <<history, bookings, challans, seq, nextBookingId,
                 items_col, godowns, calc, pdfs, started>>

\* INSERT INTO public.stock_history ... 'added'
addStockToExisting_Hist(p) ==
  LET r == proc[p] IN
  /\ r.pc = "ae_hist"
  /\ IF r.target \in DOMAIN stock THEN
       /\ history' = history (+)
            Inserted(<<HistoryEntry(r.target, "added", r.n,
                                    r.n * stock[r.target].per_case)>>)
       /\ proc' = [proc EXCEPT ![p] = Finished(r.op, "ok", 0)]
     ELSE
       \* the row went with its godown: the stock_id reference is violated
       /\ proc' = [proc EXCEPT ![p] = Finished(r.op, "error", 0)]
       /\ UNCHANGED history
  /\ UNCHANGED <<stock, bookings, challans, seq, nextBookingId,
                 items_col, godowns, calc, pdfs, started>>

\* a pool.query statement throws outside any transaction: the catch block
\* answers 500 and what was written before stays written
StmtError(p) ==
  /\ proc[p].pc \in {"ae_write", "ae_hist", "ag_write", "ag_hist"}
  /\ proc' = [proc EXCEPT ![p] = Finished(proc[p].op, "error", 0)]
  /\ UNCHANGED <<stock, history, bookings, challans, seq, nextBookingId,
                 items_col, godowns, calc, pdfs, started>>

\* --------------------------------------------- editBooking (Godown.router.js)
\* UPDATE public.stock SET current_cases = current_cases + $1,
\*                         taken_cases = taken_cases - $1
RestoredRow(row, cases) ==
  [row EXCEPT !.current_cases = row.current_cases + cases,
              !.taken_cases = row.taken_cases - cases]

\* stored items the restock loops do not skip (`if (!stock_id || !cases) continue`)
Restockable(items) ==
  { i \in 1 .. Len(items) : SnapshotStockId(items[i]) # 0 /\ items[i].cases # 0 }

RECURSIVE Restock(_, _, _, _)
\* the restock loop over stored items: the rows written (w) and the 'added'
\* history entries (h); dflt is what a missing per_case counts as
Restock(items, w, h, dflt) ==
  IF items = <<>> THEN [w |-> w, h |-> h]
  ELSE
    LET it == Head(items)
        sid == SnapshotStockId(it)
        row == IF sid \in DOMAIN w THEN w[sid] ELSE stock[sid]
        per == IF it.per_case = 0 THEN dflt ELSE it.per_case
    IN IF sid = 0 \/ it.cases = 0
       THEN Restock(Tail(items), w, h, dflt)
       ELSE Restock(Tail(items), (sid :> RestoredRow(row, it.cases)) @@ w,
                    Append(h, HistoryEntry(sid, "added", it.cases, it.cases * per)),
                    dflt)

BookingById(b) == CHOOSE row \in bookings : row.id = b

\* BEGIN, SELECT items ... FOR UPDATE, restock of the old items
editBooking_Start(p, b) ==
  /\ CanStart(p)
  /\ started' = started + 1
  /\ IF b \notin {row.id : row \in bookings}
     THEN proc' = [proc EXCEPT ![p] = Finished("editBooking", "not_found", 0)]
     ELSE
       LET original == BookingById(b)
           oldItems == IF items_col = "jsonb" THEN original.items ELSE <<>>
           touched == {SnapshotStockId(oldItems[i]) : i \in Restockable(oldItems)}
           res == Restock(oldItems, EmptyRows, <<>>, 1)
       IN
       /\ BookingLockFree(p, b)
       /\ \A sid \in touched : StockLockFree(p, sid)
       /\ IF touched \subseteq DOMAIN stock
          THEN proc' = [proc EXCEPT ![p] =
                 [Idle EXCEPT !.pc = "eb_items", !.op = "editBooking",
                              !.target = b, !.shouldDeductStock = TRUE,
                              !.wstock = res.w, !.whist = res.h]]
          ELSE proc' = [proc EXCEPT ![p] = Finished("editBooking", "error", 0)]
  /\ UNCHANGED <<stock, history, bookings, challans, seq, nextBookingId,
                 items_col, godowns, calc, pdfs>>

\* one pass of the loop over the new items: always checks and deducts
editBooking_Item(p, item) ==
  /\ proc[p].pc = "eb_items"
  /\ Len(proc[p].items) < MaxItems
  /\ ProcessItem(p, item, TRUE)
  /\ UNCHANGED <<seq, items_col, godowns, calc, pdfs, started>>

\* the UPDATE also assigns the row a bill number taken from the sequence
editBooking_FinishRenumbering(p) ==
  LET r == proc[p]
      original == BookingById(r.target)
  IN
  /\ r.pc = "eb_items"
  /\ bookings' = (bookings \ {original}) \cup
       {[original EXCEPT !.items = r.items, !.pdf_path = EditPdf(r.target),
                         !.bill_number = SequenceBillNumber(seq + 1)]}
  /\ pdfs' = pdfs \cup {EditPdf(r.target)}
  /\ CommitStock(p)
  /\ proc' = [proc EXCEPT ![p] = Finished(r.op, "ok", 0)]
  /\ UNCHANGED <<challans, seq, nextBookingId, items_col, godowns, calc, started>>

\* after the last item: totals, document, UPDATE public.bookings, COMMIT
editBooking_Finish(p) ==
  LET r == proc[p]
      original == BookingById(r.target)
  IN
  /\ r.pc = "eb_items"
  /\ bookings' = (bookings \ {original}) \cup
       {[original EXCEPT !.items = r.items, !.pdf_path = EditPdf(r.target)]}
  /\ pdfs' = pdfs \cup {EditPdf(r.target)}
  /\ CommitStock(p)
  /\ proc' = [proc EXCEPT ![p] = Finished(r.op, "ok", 0)]
  /\ UNCHANGED <<challans, seq, nextBookingId, items_col, godowns, calc, started>>

\* ------------------------------------------- deleteBooking (Godown.router.js)
\* The handler takes the booking row lock and then only locks the stock rows
\* it restocks, so it runs as one step once those rows are free.
deleteBooking(p, b, fails) ==
  /\ CanStart(p)
  /\ started' = started + 1
  /\ IF b \notin {row.id : row \in bookings} THEN
       /\ proc' = [proc EXCEPT ![p] = Finished("deleteBooking", "not_found", 0)]
       /\ UNCHANGED <<stock, history, bookings, pdfs>>
     ELSE
       LET row == BookingById(b)
           touched == {SnapshotStockId(row.items[i]) : i \in Restockable(row.items)}
           res == Restock(row.items, EmptyRows, <<>>, 0)
       IN
       /\ BookingLockFree(p, b)
       /\ \A sid \in touched : StockLockFree(p, sid)
       /\ IF items_col = "jsonb" \/ ~(touched \subseteq DOMAIN stock) THEN
            \* JSON.parse of an already parsed array throws, or a restock
            \* statement fails: ROLLBACK before the document is touched
            /\ proc' = [proc EXCEPT ![p] = Finished("deleteBooking", "error", 0)]
            /\ UNCHANGED <<stock, history, bookings, pdfs>>
          ELSE IF fails THEN
            \* a statement fails: ROLLBACK.  When it is the DELETE or the
            \* COMMIT, fs.unlinkSync has already removed the document
            /\ proc' = [proc EXCEPT ![p] = Finished("deleteBooking", "error", 0)]
            /\ pdfs' \in {pdfs, pdfs \ {row.pdf_path}}
            /\ UNCHANGED <<stock, history, bookings>>
          ELSE
            /\ stock' = res.w @@ stock
            /\ history' = history (+) Inserted(res.h)
            /\ bookings' = bookings \ {row}
            /\ pdfs' = pdfs \ {row.pdf_path}
            /\ proc' = [proc EXCEPT ![p] = Finished("deleteBooking", "ok", 0)]
  /\ UNCHANGED <<challans, seq, nextBookingId, items_col, godowns, calc>>

\* ------------------------------------ convertChallanToBill (Godown.router.js)
\* itemsWithSerial
ChallanSnapshot(items) ==
  [i \in 1 .. Len(items) |->
     [s_no |-> i, cases |-> items[i].cases, per_case |-> items[i].per_case]]

\* BEGIN, SELECT * FROM delivery WHERE id = $1 AND converted_to_bill = FALSE
\* FOR UPDATE, item check, bill number
convertChallanToBill_Start(p, c) ==
  /\ CanStart(p)
  /\ started' = started + 1
  /\ ChallanLockFree(p, c)
  /\ IF c \notin DOMAIN challans \/ challans[c].converted_to_bill
     THEN proc' = [proc EXCEPT ![p] =
            Finished("convertChallanToBill", "not_found_or_converted", 0)]
     ELSE IF challans[c].items = <<>>
     THEN proc' = [proc EXCEPT ![p] =
            Finished("convertChallanToBill", "no_items", 0)]
     ELSE proc' = [proc EXCEPT ![p] =
            [Idle EXCEPT !.pc = "cv_finish", !.op = "convertChallanToBill",
                         !.target = c, !.from_challan = TRUE,
                         !.items = ChallanSnapshot(challans[c].items),
                         !.bill = ChallanBillNumber(challans[c].challan_number)]]
  /\ UNCHANGED <<stock, history, bookings, challans, seq, nextBookingId,
                 items_col, godowns, calc, pdfs>>

\* the conversion deducts the challan's first line item from stock row 1 as a
\* direct bill would
convertChallanToBill_FinishDeducting(p) ==
  LET r == proc[p] IN
  /\ r.pc = "cv_finish"
  /\ bookings' = bookings \cup
       {BookingRow(nextBookingId, r.bill, r.items, TRUE,
                   challans[r.target].challan_number, r.target)}
  /\ nextBookingId' = nextBookingId + 1
  /\ challans' = [challans EXCEPT ![r.target].converted_to_bill = TRUE]
  /\ pdfs' = pdfs \cup {BillPdf(r.bill)}
  /\ stock' = [stock EXCEPT ![1] = DeductedRow(stock[1], r.items[1].cases)]
  /\ history' = history (+)
       Inserted(<<HistoryEntry(1, "taken", r.items[1].cases,
                               r.items[1].cases * r.items[1].per_case)>>)
  /\ proc' = [proc EXCEPT ![p] = Finished(r.op, "ok", 0)]
  /\ UNCHANGED <<seq, items_col, godowns, calc, started>>

\* document, INSERT INTO bookings, UPDATE delivery, COMMIT
convertChallanToBill_Finish(p) ==
  LET r == proc[p] IN
  /\ r.pc = "cv_finish"
  /\ bookings' = bookings \cup
       {BookingRow(nextBookingId, r.bill, r.items, TRUE,
                   challans[r.target].challan_number, r.target)}
  /\ nextBookingId' = nextBookingId + 1
  /\ challans' = [challans EXCEPT ![r.target].converted_to_bill = TRUE]
  /\ pdfs' = pdfs \cup {BillPdf(r.bill)}
  /\ proc' = [proc EXCEPT ![p] = Finished(r.op, "ok", 0)]
  /\ UNCHANGED <<stock, history, seq, items_col, godowns, calc, started>>

\* ------------------------------------ addStockToGodown (Godown.controller.js)
\* validation, godown / product / brand lookups, unlocked SELECT of the row
addStockToGodown_Start(p, k, n, found) ==
  /\ CanStart(p)
  /\ started' = started + 1
  /\ IF n <= 0 THEN
       proc' = [proc EXCEPT ![p] = Finished("addStockToGodown", "invalid", 0)]
     ELSE IF GodownOf[k] \notin godowns \/ ~found THEN
       proc' = [proc EXCEPT ![p] = Finished("addStockToGodown", "not_found", 0)]
     ELSE
       proc' = [proc EXCEPT ![p] =
         [Idle EXCEPT !.pc = "ag_write", !.op = "addStockToGodown",
                      !.target = k, !.n = n,
                      !.rd = IF k \in DOMAIN stock THEN stock[k].current_cases
                             ELSE -1]]
  /\ UNCHANGED <<stock, history, bookings, challans, seq, nextBookingId,
                 items_col, godowns, calc, pdfs>>

\* UPDATE current_cases = newCases when a row was found, else INSERT
addStockToGodown_Write(p) ==
  LET r == proc[p] IN
  /\ r.pc = "ag_write"
  /\ IF r.rd >= 0 THEN
       /\ StockLockFree(p, r.target)
       /\ stock' = [stock EXCEPT ![r.target].current_cases = r.rd + r.n]
       /\ proc' = [proc EXCEPT ![p].pc = "ag_hist"]
     ELSE IF r.target \in DOMAIN stock \/ GodownOf[r.target] \notin godowns THEN
       \* unique_stock_entry or the godown_id reference is violated: the
       \* INSERT throws
       /\ proc' = [proc EXCEPT ![p] = Finished(r.op, "error", 0)]
       /\ UNCHANGED stock
     ELSE
       /\ stock' = (r.target :> [current_cases |-> r.n, taken_cases |-> 0,
                                 per_case |-> CatalogPerCase[r.target]]) @@ stock
       /\ proc' = [proc EXCEPT ![p].pc = "ag_hist"]
  /\ UNCHANGED <<history, bookings, challans, seq, nextBookingId,
                 items_col, godowns, calc, pdfs, started>>

\* INSERT INTO public.stock_history ... 'added'
addStockToGodown_Hist(p) ==
  LET r == proc[p] IN
  /\ r.pc = "ag_hist"
  /\ IF r.target \in DOMAIN stock THEN
       /\ history' = history (+)
            Inserted(<<HistoryEntry(r.target, "added", r.n,
                                    r.n * CatalogPerCase[r.target])>>)
       /\ proc' = [proc EXCEPT ![p] = Finished(r.op, "ok", 0)]
     ELSE
       \* the row went with its godown: the stock_id reference is violated
       /\ proc' = [proc EXCEPT ![p] = Finished(r.op, "error", 0)]
       /\ UNCHANGED history
  /\ UNCHANGED <<stock, bookings, challans, seq, nextBookingId,
                 items_col, godowns, calc, pdfs, started>>

\* ---------------------------------------- deleteGodown (Godown.controller.js)
\* stock rows kept in godown g
StockOfGodown(g) == {s \in DOMAIN stock : GodownOf[s] = g}

\* stock_history rows that do not reference a stock row in rows
HistoryWithout(rows) ==
  LET keep == {e \in BagToSet(history) : e.stock_id \notin rows}
  IN [e \in keep |-> CopiesIn(e, history)]

\* DELETE FROM public.godown WHERE id = g: one statement, which removes the
\* godown's stock rows (ON DELETE CASCADE) and with them their history rows
\* (ON DELETE CASCADE); it waits for the row locks of open transactions
deleteGodown(p, g) ==
  /\ CanStart(p)
  /\ started' = started + 1
  /\ IF g \notin godowns THEN
       /\ proc' = [proc EXCEPT ![p] = Finished("deleteGodown", "not_found", 0)]
       /\ UNCHANGED <<stock, history, godowns>>
     ELSE
       /\ \A s \in StockOfGodown(g) : StockLockFree(p, s)
       /\ godowns' = godowns \ {g}
       /\ stock' = [s \in DOMAIN stock \ StockOfGodown(g) |-> stock[s]]
       /\ history' = HistoryWithout(StockOfGodown(g))
       /\ proc' = [proc EXCEPT ![p] = Finished("deleteGodown", "ok", 0)]
  /\ UNCHANGED <<bookings, challans, seq, nextBookingId, items_col, calc, pdfs>>

\* ------------------------------------------------------------ specification
\* line items the enumerated requests carry: a direct bill or an edit may
\* name any item, a bill that deducts nothing carries the challan's item
RequestItems(p) ==
  IF proc[p].shouldDeductStock THEN ItemSet
  ELSE {[id |-> 1, cases |-> 4, per_case |-> 12]}

Next ==
  \E p \in Procs :
    \/ /\ started < MaxCalls
       /\ \E hdr_ok, is_direct_bill, from_challan \in BOOLEAN, challan_id \in {0, 1} :
            createBooking_Start(p, hdr_ok, is_direct_bill, from_challan, challan_id)
    \/ \E item \in RequestItems(p) : createBooking_Item(p, item)
    \/ createBooking_Finish(p)
    \/ started < MaxCalls /\ \E b \in BookingIds : editBooking_Start(p, b)
    \/ \E item \in ItemSet : editBooking_Item(p, item)
    \/ editBooking_Finish(p)
    \/ /\ started < MaxCalls
       /\ \E b \in BookingIds, fails \in BOOLEAN : deleteBooking(p, b, fails)
    \/ started < MaxCalls /\ \E c \in ChallanIds : convertChallanToBill_Start(p, c)
    \/ convertChallanToBill_Finish(p)
    \/ TxError(p)
    \/ /\ started < MaxCalls
       /\ \E s \in {1, 3}, c \in TakeCases \cup {0}, fails \in BOOLEAN :
            takeStockFromGodown(p, s, c, fails)
    \/ /\ started < MaxCalls
       /\ \E s \in {1, 3}, n \in AddCases \cup {0} : addStockToExisting_Start(p, s, n)
    \/ addStockToExisting_Write(p)
    \/ addStockToExisting_Hist(p)
    \/ /\ started < MaxCalls
       /\ \E k \in {1, 3}, n \in AddCases \cup {0}, found \in BOOLEAN :
            addStockToGodown_Start(p, k, n, found)
    \/ addStockToGodown_Write(p)
    \/ addStockToGodown_Hist(p)
    \/ StmtError(p)

Spec == Init /\ [][Next]_vars

\* --------------------------- createBooking of Controller/Booking.controller.js
\* header validation, BEGIN, generateBillNumber (a COUNT(*) sent through the
\* pool, so it sees committed rows only)
createBookingLegacy_Start(p, hdr_ok) ==
  /\ CanStart(p)
  /\ started' = started + 1
  /\ IF ~hdr_ok
     THEN proc' = [proc EXCEPT ![p] = Finished("createBookingLegacy", "invalid", 0)]
     ELSE proc' = [proc EXCEPT ![p] =
            [Idle EXCEPT !.pc = "lcb_items", !.op = "createBookingLegacy",
                         !.shouldDeductStock = TRUE,
                         !.bill = generateBillNumber(Cardinality(bookings))]]
  /\ UNCHANGED <<stock, history, bookings, challans, seq, nextBookingId,
                 items_col, godowns, calc, pdfs>>

\* one pass of the loop over items: every item is checked and deducted
createBookingLegacy_Item(p, item) ==
  /\ proc[p].pc = "lcb_items"
  /\ Len(proc[p].items) < MaxItems
  /\ ProcessItem(p, item, TRUE)
  /\ UNCHANGED <<seq, items_col, godowns, calc, pdfs, started>>

\* totals, document, INSERT INTO bookings, COMMIT
createBookingLegacy_Finish(p) ==
  LET r == proc[p] IN
  /\ r.pc = "lcb_items"
  /\ Len(r.items) >= 1
  /\ bookings' = bookings \cup
       {BookingRow(nextBookingId, r.bill, r.items, FALSE, NoChallanNumber, 0)}
  /\ nextBookingId' = nextBookingId + 1
  /\ pdfs' = pdfs \cup {BillPdf(r.bill)}
  /\ CommitStock(p)
  /\ proc' = [proc EXCEPT ![p] = Finished(r.op, "ok", 0)]
  /\ UNCHANGED <<challans, seq, items_col, godowns, calc, started>>

\* the bookings table as the older createBooking leaves it
InitLegacy ==
  /\ stock = InitStock
  /\ history = InitHistory
  /\ bookings = { BookingRow(1, generateBillNumber(0),
                             <<[s_no |-> 1, cases |-> 4, per_case |-> 12]>>,
                             FALSE, NoChallanNumber, 0) }
  /\ challans = InitChallans
  /\ seq = 2
  /\ nextBookingId = 2
  /\ items_col \in {"jsonb", "text"}
  /\ pdfs = {row.pdf_path : row \in bookings}
  /\ godowns = GodownIds
  /\ calc = [req |-> PlainRequest, bill |-> << >>]
  /\ proc = [p \in Procs |-> Idle]
  /\ started = 0

NextLegacy ==
  \E p \in Procs :
    \/ started < MaxCalls /\ \E hdr_ok \in BOOLEAN : createBookingLegacy_Start(p, hdr_ok)
    \/ \E item \in ItemSet : createBookingLegacy_Item(p, item)
    \/ createBookingLegacy_Finish(p)
    \/ /\ started < MaxCalls
       /\ \E b \in BookingIds, fails \in BOOLEAN : deleteBooking(p, b, fails)
    \/ TxError(p)

\* the server with the createBooking of Controller/Booking.controller.js
SpecLegacy == InitLegacy /\ [][NextLegacy]_vars

\* ------------------------------------------------------------- scenarios
\* Two clients, one call each: direct bills whose first line item asks 7 of
\* the 10 cases of stock row 1, so that the two requests together exceed it.
ContendedItems(p) ==
  IF proc[p].items = <<>>
  THEN {[id |-> 1, cases |-> 7, per_case |-> 12]}
  ELSE {[id |-> 1, cases |-> 4, per_case |-> 12],
        [id |-> 2, cases |-> 4, per_case |-> 10]}

NextContention ==
  \E p \in Procs :
    \/ proc[p].pc = "idle" /\ createBooking_Start(p, TRUE, TRUE, FALSE, 0)
    \/ \E item \in ContendedItems(p) : createBooking_Item(p, item)
    \/ createBooking_Finish(p)
    \/ TxError(p)

SpecContention == Init /\ [][NextContention]_vars

\* Two clients, one call each, all about challan 1: a conversion or a bill
\* created from the challan.
NextChallan ==
  \E p \in Procs :
    \/ proc[p].pc = "idle" /\ convertChallanToBill_Start(p, 1)
    \/ convertChallanToBill_Finish(p)
    \/ /\ proc[p].pc = "idle"
       /\ \E is_direct_bill \in BOOLEAN :
            createBooking_Start(p, TRUE, is_direct_bill, TRUE, 1)
    \/ \E item \in RequestItems(p) : createBooking_Item(p, item)
    \/ createBooking_Finish(p)
    \/ TxError(p)

SpecChallan == Init /\ [][NextChallan]_vars

\* One client: a direct bill, then an edit of that bill (booking 2) to other
\* items, then its deletion, each sent after the previous call succeeded.
CreateItems ==
  {[id |-> 1, cases |-> 4, per_case |-> 12], [id |-> 2, cases |-> 4, per_case |-> 10]}

EditItems ==
  {[id |-> 1, cases |-> 7, per_case |-> 12], [id |-> 1, cases |-> 4, per_case |-> 10],
   [id |-> 2, cases |-> 4, per_case |-> 10]}

PreviousOk == proc["p1"].pc = "done" /\ proc["p1"].outcome = "ok"

NextRoundTrip ==
  \/ started = 0 /\ createBooking_Start("p1", TRUE, TRUE, FALSE, 0)
  \/ \E item \in CreateItems : createBooking_Item("p1", item)
  \/ createBooking_Finish("p1")
  \/ started = 1 /\ PreviousOk /\ editBooking_Start("p1", 2)
  \/ \E item \in EditItems : editBooking_Item("p1", item)
  \/ proc["p1"].items # <<>> /\ editBooking_Finish("p1")
  \/ started = 2 /\ PreviousOk /\ \E fails \in BOOLEAN : deleteBooking("p1", 2, fails)
  \/ TxError("p1")

SpecRoundTrip == Init /\ [][NextRoundTrip]_vars

\* Deductions against rows 1 and 2 and the absent row 3, by direct bills,
\* edits of booking 1 and takeStockFromGodown; row 2 holds exactly the 4
\* cases one request asks for.
DeductItems ==
  {[id |-> 2, cases |-> 4, per_case |-> 10], [id |-> 1, cases |-> 7, per_case |-> 12],
   [id |-> 3, cases |-> 4, per_case |-> 12]}

NextDeduct ==
  \E p \in Procs :
    \/ started < MaxCalls /\ createBooking_Start(p, TRUE, TRUE, FALSE, 0)
    \/ \E item \in DeductItems : createBooking_Item(p, item)
    \/ createBooking_Finish(p)
    \/ started < MaxCalls /\ editBooking_Start(p, 1)
    \/ \E item \in DeductItems : editBooking_Item(p, item)
    \/ editBooking_Finish(p)
    \/ /\ started < MaxCalls
       /\ \E s \in {2, 3}, c \in TakeCases : takeStockFromGodown(p, s, c, FALSE)
    \/ TxError(p)

SpecDeduct == Init /\ [][NextDeduct]_vars

\* The four handlers that run inside a transaction, two calls in all, each of
\* which may be ended by a failing statement or a failing document generation.
NextTx ==
  \E p \in Procs :
    \/ /\ started < MaxCalls
       /\ \E is_direct_bill, from_challan \in BOOLEAN :
            createBooking_Start(p, TRUE, is_direct_bill, from_challan, 1)
    \/ \E item \in RequestItems(p) : createBooking_Item(p, item)
    \/ createBooking_Finish(p)
    \/ started < MaxCalls /\ \E b \in BookingIds : editBooking_Start(p, b)
    \/ \E item \in ItemSet : editBooking_Item(p, item)
    \/ editBooking_Finish(p)
    \/ /\ started < MaxCalls
       /\ \E b \in BookingIds, fails \in BOOLEAN : deleteBooking(p, b, fails)
    \/ started < MaxCalls /\ \E c \in ChallanIds : convertChallanToBill_Start(p, c)
    \/ convertChallanToBill_Finish(p)
    \/ TxError(p)

SpecTx == Init /\ [][NextTx]_vars

\* -------------------------------------------------- scenario: godown removal
\* a godown is deleted while stock is taken from and added to its rows
NextGodown ==
  \E p \in Procs :
    \/ started < MaxCalls /\ \E g \in GodownIds : deleteGodown(p, g)
    \/ /\ started < MaxCalls
       /\ \E s \in {1, 2}, c \in TakeCases : takeStockFromGodown(p, s, c, FALSE)
    \/ /\ started < MaxCalls
       /\ \E s \in {1, 2}, n \in AddCases : addStockToExisting_Start(p, s, n)
    \/ addStockToExisting_Write(p)
    \/ addStockToExisting_Hist(p)
    \/ /\ started < MaxCalls
       /\ \E k \in {1, 3}, n \in AddCases : addStockToGodown_Start(p, k, n, TRUE)
    \/ addStockToGodown_Write(p)
    \/ addStockToGodown_Hist(p)

SpecGodown == Init /\ [][NextGodown]_vars

\* ------------------------------------------------------- scenario: totals
\* The totals are a function of the request alone: the request is drawn at
\* the start and each handler's calculation is applied to it.
InitTotals ==
  /\ stock = InitStock
  /\ history = InitHistory
  /\ bookings = InitBookings
  /\ challans = InitChallans
  /\ seq = 2
  /\ nextBookingId = 2
  /\ items_col \in {"jsonb", "text"}
  /\ pdfs = {row.pdf_path : row \in bookings}
  /\ godowns = GodownIds
  /\ calc \in [req : Requests, bill : {<< >>}]
  /\ proc = [p \in Procs |-> Idle]
  /\ started = 0

\* the variables the totals scenario leaves alone
Tables == <<stock, history, bookings, challans, seq, nextBookingId,
            items_col, godowns, pdfs, proc, started>>

\* createBooking: "Calculations" and the data of generatePDF; each constant
\* of the handler is bound in the order the handler computes it
createBooking_Totals ==
  /\ "createBooking" \notin DOMAIN calc.bill
  /\ LET req == calc.req IN
     \E amounts \in {[i \in 1 .. Len(req.items) |-> finalAmt(req.items[i])]} :
     \E subtotal \in {SumAmounts(amounts)} :
     \E packingCharges \in {PackingCharges(req, subtotal)} :
     \E subtotalWithPacking \in {Plus(subtotal, packingCharges)} :
     \E taxableAmount \in {Plus(subtotalWithPacking, Whole(req.taxable_value))} :
     \E discountAmt \in {PercentOf(taxableAmount, req.additional_discount)} :
     \E netTaxable \in {Minus(taxableAmount, discountAmt)} :
     \E gst \in {Gst(req, netTaxable)} :
     \E totalTax \in {Plus(Plus(gst.cgst, gst.sgst), gst.igst)} :
     \E unrounded \in {Plus(netTaxable, totalTax)} :
     \E grandTotal \in {MathRound(unrounded)} :
     \E roundOff \in {Minus(Whole(grandTotal), unrounded)} :
       calc' = [calc EXCEPT !.bill =
         ("createBooking" :>
            [amounts |-> amounts, subtotal |-> subtotal,
             totalCases |-> TotalCases(req.items),
             packingCharges |-> packingCharges,
             netTaxable |-> netTaxable,
             cgst |-> gst.cgst, sgst |-> gst.sgst, igst |-> gst.igst,
             unrounded |-> unrounded, total |-> grandTotal,
             doc |-> [subtotal |-> toFixed2(subtotal),
                      packingCharges |-> toFixed2(packingCharges),
                      subtotalWithPacking |-> toFixed2(subtotalWithPacking),
                      taxableUsed |-> toFixed2(taxableAmount),
                      addlDiscountAmt |-> toFixed2(discountAmt),
                      roundOff |-> toFixed2(roundOff),
                      grandTotal |-> grandTotal,
                      cgstAmt |-> toFixed2(gst.cgst),
                      sgstAmt |-> toFixed2(gst.sgst),
                      igstAmt |-> toFixed2(gst.igst)]]) @@ @]
  /\ UNCHANGED Tables

\* editBooking: "4. Recalculate totals" and the data of generatePDF
editBooking_Totals ==
  /\ "editBooking" \notin DOMAIN calc.bill
  /\ LET req == calc.req IN
     \E amounts \in {[i \in 1 .. Len(req.items) |-> finalAmt(req.items[i])]} :
     \E subtotal \in {SumAmounts(amounts)} :
     \E packingCharges \in {PercentOf(subtotal, req.packing_percent)} :
     \E subtotalWithPacking \in {Plus(subtotal, packingCharges)} :
     \E taxableUsed \in {IF req.taxable_value # 0 THEN Whole(req.taxable_value)
                          ELSE subtotalWithPacking} :
     \E addlDiscountAmt \in {PercentOf(taxableUsed, req.additional_discount)} :
     \E netBeforeRound \in {Minus(taxableUsed, addlDiscountAmt)} :
     \E grandTotal \in {MathRound(netBeforeRound)} :
     \E roundOff \in {Minus(Whole(grandTotal), netBeforeRound)} :
       calc' = [calc EXCEPT !.bill =
         ("editBooking" :>
            [amounts |-> amounts, subtotal |-> subtotal,
             totalCases |-> TotalCases(req.items),
             packingCharges |-> packingCharges,
             unrounded |-> netBeforeRound,
             doc |-> [subtotal |-> toFixed2(subtotal),
                      packingCharges |-> toFixed2(packingCharges),
                      subtotalWithPacking |-> toFixed2(subtotalWithPacking),
                      taxableUsed |-> toFixed2(taxableUsed),
                      addlDiscountAmt |-> toFixed2(addlDiscountAmt),
                      roundOff |-> toFixed2(roundOff),
                      grandTotal |-> grandTotal]]) @@ @]
  /\ UNCHANGED Tables

\* convertChallanToBill: bill number, itemsWithSerial, subtotal and the data
\* of generatePDF, computed from the challan's number and items
convertChallanToBill_Totals ==
  /\ "convertChallanToBill" \notin DOMAIN calc.bill
  /\ LET challan == calc.req IN
     \E itemsWithSerial \in
          {[i \in 1 .. Len(challan.items) |->
              ItemWithSerial(challan.items[i], i - 1)]} :
     \E subtotal \in
          {SumAmounts([i \in 1 .. Len(itemsWithSerial) |->
                         itemsWithSerial[i].amount])} :
       calc' = [calc EXCEPT !.bill =
         ("convertChallanToBill" :>
            [bill_number |-> ChallanBillNumber(challan.challan_number),
             from_challan |-> TRUE,
             items |-> itemsWithSerial,
             unrounded |-> subtotal,
             doc |-> [subtotal |-> subtotal,
                      packingCharges |-> Whole(0),
                      subtotalWithPacking |-> subtotal,
                      taxableUsed |-> subtotal,
                      addlDiscountAmt |-> Whole(0),
                      roundOff |-> Whole(0),
                      grandTotal |-> MathRound(subtotal),
                      cgstAmt |-> Whole(0), sgstAmt |-> Whole(0),
                      igstAmt |-> Whole(0)]]) @@ @]
  /\ UNCHANGED Tables

NextTotals ==
  \/ createBooking_Totals
  \/ editBooking_Totals
  \/ convertChallanToBill_Totals

SpecTotals == InitTotals /\ [][NextTotals]_vars

\* Two clients whose requests name stock rows 1 and 2 in opposite orders: the
\* first submits row 1 then row 2, the second row 2 then row 1.  Each is a
\* direct bill (createBooking) or an edit of a booking (editBooking).
Submitted(p) ==
  IF p = "p1"
  THEN <<[id |-> 1, cases |-> 4, per_case |-> 12],
         [id |-> 2, cases |-> 2, per_case |-> 10]>>
  ELSE <<[id |-> 2, cases |-> 2, per_case |-> 10],
         [id |-> 1, cases |-> 4, per_case |-> 12]>>

\* the items of a request in ascending order of stock id
RECURSIVE SortedById(_)
SortedById(items) ==
  IF items = <<>> THEN <<>>
  ELSE LET i == CHOOSE i \in 1..Len(items) :
                  \A j \in 1..Len(items) : items[i].id <= items[j].id
           rest == [j \in 1..(Len(items) - 1) |->
                      IF j < i THEN items[j] ELSE items[j + 1]]
       IN <<items[i]>> \o SortedById(rest)

\* a handler that sorted the submitted items by stock id before its loop
NextItemById(p) ==
  {SortedById(Submitted(p))[k] :
     k \in {Len(proc[p].items) + 1} \cap DOMAIN Submitted(p)}

\* the item of the next pass of `for (const [idx, item] of items.entries())`:
\* the passes take the items in the order of the request body
NextItem(p) ==
  {Submitted(p)[k] : k \in {Len(proc[p].items) + 1} \cap DOMAIN Submitted(p)}

\* the rows a transaction holds FOR UPDATE locks on
LockedRows(p) == {s \in StockIds : p \in LockHolders(s)}

NextOpposed ==
  \E p \in Procs :
    \/ proc[p].pc = "idle" /\ createBooking_Start(p, TRUE, TRUE, FALSE, 0)
    \/ \E item \in NextItem(p) : createBooking_Item(p, item)
    \/ Len(proc[p].items) = Len(Submitted(p)) /\ createBooking_Finish(p)
    \/ proc[p].pc = "idle" /\ editBooking_Start(p, 1)
    \/ \E item \in NextItem(p) : editBooking_Item(p, item)
    \/ Len(proc[p].items) = Len(Submitted(p)) /\ editBooking_Finish(p)
    \/ TxError(p)

SpecOpposed == Init /\ [][NextOpposed]_vars

\* ------------------------------------------------- names as strings
\* Bill numbers and document names are records [prefix, digits]; the string
\* operations of editBooking work on their characters.
DigitChar(d) == <<"0", "1", "2", "3", "4", "5", "6", "7", "8", "9">>[d + 1]

PrefixChars ==
  ("" :> <<>>) @@
  ("BILL" :> <<"B", "I", "L", "L">>) @@
  ("BILL-" :> <<"B", "I", "L", "L", "-">>) @@
  ("bill_" :> <<"b", "i", "l", "l", "_">>)

\* the string a name stands for
StringOf(name) ==
  PrefixChars[name.prefix] \o [i \in DOMAIN name.digits |-> DigitChar(name.digits[i])]

\* the name a string of prefix characters and digits stands for
NameOf(chars) ==
  LET IsDigit(c) == \E d \in 0 .. 9 : DigitChar(d) = c
      first == IF \E i \in DOMAIN chars : IsDigit(chars[i])
               THEN CHOOSE i \in DOMAIN chars :
                      IsDigit(chars[i]) /\ \A j \in 1 .. (i - 1) : ~IsDigit(chars[j])
               ELSE Len(chars) + 1
      head == SubSeq(chars, 1, first - 1)
      tail == SubSeq(chars, first, Len(chars))
  IN [prefix |-> CHOOSE s \in DOMAIN PrefixChars : PrefixChars[s] = head,
      digits |-> [i \in DOMAIN tail |->
                    CHOOSE d \in 0 .. 9 : DigitChar(d) = tail[i]]]

\* `/uploads/pdfs/${pdfFileName}`: `${bill_number}.pdf` for a new booking,
\* `bill_${id}_${timestamp}.pdf` after an edit (a timestamp of two digits)
PdfPathString(pdf_path) ==
  <<"/", "u", "p", "l", "o", "a", "d", "s", "/", "p", "d", "f", "s", "/">>
    \o StringOf(pdf_path)
    \o (IF pdf_path.prefix = "bill_" THEN <<"_", "1", "7">> ELSE <<>>)
    \o <<".", "p", "d", "f">>

RECURSIVE Split(_, _)
\* str.split(sep) for a separator of one character
Split(str, sep) ==
  IF \A i \in DOMAIN str : str[i] # sep THEN <<str>>
  ELSE LET i == CHOOSE i \in DOMAIN str :
                  str[i] = sep /\ \A j \in 1 .. (i - 1) : str[j] # sep
       IN <<SubSeq(str, 1, i - 1)>> \o Split(SubSeq(str, i + 1, Len(str)), sep)

\* editBooking, the bill_number handed to generatePDF:
\* original.pdf_path.split('_')[1]?.split('.')[0] || `BILL${id}`
editBooking_DocumentBillNumber(original, id) ==
  LET parts == Split(PdfPathString(original.pdf_path), "_")
      fallback == StringOf([prefix |-> "BILL", digits |-> ToDigits(id)])
  IN IF Len(parts) < 2 THEN fallback
     ELSE IF Split(parts[2], ".")[1] = <<>> THEN fallback
     ELSE Split(parts[2], ".")[1]

\* ------------------------------------- scenario: document, then COMMIT
\* The last part of createBooking, editBooking and convertChallanToBill taken
\* in two steps: `await generatePDF(...)`, whose promise resolves on the
\* stream's 'finish' event, and then the statements up to COMMIT.  A rejected
\* promise or a failing statement is TxError: the catch block rolls back and
\* a document that was already written stays on disk.
createBooking_Document(p) ==
  LET r == proc[p] IN
  /\ r.pc = "cb_items"
  /\ Len(r.items) >= 1
  /\ pdfs' = pdfs \cup {BillPdf(r.bill)}
  /\ proc' = [proc EXCEPT ![p].pc = "cb_commit"]
  /\ UNCHANGED <<stock, history, bookings, challans, seq, nextBookingId,
                 items_col, godowns, calc, started>>

\* INSERT INTO bookings, challan mark, COMMIT
createBooking_Insert(p) ==
  LET r == proc[p]
      mark == r.from_challan /\ r.challan_id # 0
  IN
  /\ mark => ChallanLockFree(p, r.challan_id)
  /\ bookings' = bookings \cup
       {BookingRow(nextBookingId, r.bill, r.items, r.from_challan,
                   NoChallanNumber, r.challan_id)}
  /\ nextBookingId' = nextBookingId + 1
  /\ challans' = IF mark /\ r.challan_id \in DOMAIN challans
                 THEN [challans EXCEPT ![r.challan_id].converted_to_bill = TRUE]
                 ELSE challans
  /\ CommitStock(p)
  /\ proc' = [proc EXCEPT ![p] = Finished(r.op, "ok", 0)]
  /\ UNCHANGED <<seq, items_col, godowns, calc, pdfs, started>>

\* the INSERT and the COMMIT are issued right after the item loop, before the
\* document is generated
createBooking_CommitUndocumented(p) ==
  /\ proc[p].pc = "cb_items"
  /\ Len(proc[p].items) >= 1
  /\ createBooking_Insert(p)

createBooking_Commit(p) ==
  /\ proc[p].pc = "cb_commit"
  /\ createBooking_Insert(p)

\* proc[p].bill is the bill_number printed on the document
editBooking_Document(p) ==
  /\ proc[p].pc = "eb_items"
  /\ pdfs' = pdfs \cup {EditPdf(proc[p].target)}
  /\ proc' = [proc EXCEPT
       ![p].pc = "eb_commit",
       ![p].bill = NameOf(editBooking_DocumentBillNumber(
                            BookingById(proc[p].target), proc[p].target))]
  /\ UNCHANGED <<stock, history, bookings, challans, seq, nextBookingId,
                 items_col, godowns, calc, started>>

\* UPDATE public.bookings, COMMIT
editBooking_Commit(p) ==
  LET r == proc[p]
      original == BookingById(r.target)
  IN
  /\ r.pc = "eb_commit"
  /\ bookings' = (bookings \ {original}) \cup
       {[original EXCEPT !.items = r.items, !.pdf_path = EditPdf(r.target)]}
  /\ CommitStock(p)
  /\ proc' = [proc EXCEPT ![p] = Finished(r.op, "ok", 0)]
  /\ UNCHANGED <<challans, seq, nextBookingId, items_col, godowns, calc, pdfs,
                 started>>

convertChallanToBill_Document(p) ==
  /\ proc[p].pc = "cv_finish"
  /\ pdfs' = pdfs \cup {BillPdf(proc[p].bill)}
  /\ proc' = [proc EXCEPT ![p].pc = "cv_commit"]
  /\ UNCHANGED <<stock, history, bookings, challans, seq, nextBookingId,
                 items_col, godowns, calc, started>>

\* INSERT INTO bookings, UPDATE delivery, COMMIT
convertChallanToBill_Commit(p) ==
  LET r == proc[p] IN
  /\ r.pc = "cv_commit"
  /\ bookings' = bookings \cup
       {BookingRow(nextBookingId, r.bill, r.items, TRUE,
                   challans[r.target].challan_number, r.target)}
  /\ nextBookingId' = nextBookingId + 1
  /\ challans' = [challans EXCEPT ![r.target].converted_to_bill = TRUE]
  /\ proc' = [proc EXCEPT ![p] = Finished(r.op, "ok", 0)]
  /\ UNCHANGED <<stock, history, seq, items_col, godowns, calc, pdfs, started>>

\* Two clients, one call each.  Line items of the requests: 4 cases of row 1
\* (of 10) and 4 cases of row 2 (of 4).
DocumentItems ==
  {[id |-> 1, cases |-> 4, per_case |-> 12],
   [id |-> 2, cases |-> 4, per_case |-> 10]}

NextDocument ==
  \E p \in Procs :
    \/ /\ proc[p].pc = "idle"
       /\ \E is_direct_bill, from_challan \in BOOLEAN :
            createBooking_Start(p, TRUE, is_direct_bill, from_challan, 1)
    \/ \E item \in RequestItems(p) \cap DocumentItems : createBooking_Item(p, item)
    \/ createBooking_Document(p)
    \/ createBooking_Commit(p)
    \/ proc[p].pc = "idle" /\ \E b \in BookingIds : editBooking_Start(p, b)
    \/ \E item \in DocumentItems : editBooking_Item(p, item)
    \/ editBooking_Document(p)
    \/ editBooking_Commit(p)
    \/ proc[p].pc = "idle" /\ \E c \in ChallanIds : convertChallanToBill_Start(p, c)
    \/ convertChallanToBill_Document(p)
    \/ convertChallanToBill_Commit(p)
    \/ TxError(p)

SpecDocument == Init /\ [][NextDocument]_vars

\* ----------------------------------------- scenario: reading the history
\* getStockHistory (Godown.controller.js) over a stock_history table whose
\* rows carry their id and their date.  Up to MaxHistory rows, each of stock
\* row 1 or 2 and written at one of two instants.
MaxHistory == 3

HistoryRows ==
  [id : 1 .. MaxHistory, stock_id : {1, 2}, date : {1, 2},
   action : {"taken"}, cases : {4}]

InitHistoryRead ==
  /\ stock = InitStock
  /\ \E rows \in SUBSET HistoryRows :
       /\ \A g, h \in rows : g.id = h.id => g = h
       /\ history = SetToBag(rows)
  /\ bookings = InitBookings
  /\ challans = InitChallans
  /\ seq = 2
  /\ nextBookingId = 2
  /\ items_col = "jsonb"
  /\ pdfs = {row.pdf_path : row \in bookings}
  /\ godowns = GodownIds
  /\ calc = [req |-> PlainRequest, bill |-> << >>]
  /\ proc = [p \in Procs |-> Idle]
  /\ started = 0

\* FROM stock_history h JOIN stock s ON h.stock_id = s.id (LEFT JOIN brand on
\* its unique name adds no row) WHERE h.stock_id = $1
HistoryOfStock(stock_id) ==
  {h \in BagToSet(history) : h.stock_id \in DOMAIN stock /\ h.stock_id = stock_id}

\* h.*, s.per_case * h.cases AS per_case_total
HistoryResultRow(h) ==
  [id |-> h.id, stock_id |-> h.stock_id, date |-> h.date, action |-> h.action,
   cases |-> h.cases, per_case_total |-> stock[h.stock_id].per_case * h.cases]

\* the orders in which a result set can be returned
Orderings(rows) ==
  {sq \in [1 .. Cardinality(rows) -> rows] :
     \A i, j \in 1 .. Cardinality(rows) : i # j => sq[i] # sq[j]}

\* ORDER BY h.date ASC
OrderByDateAsc(rows) ==
  {sq \in Orderings(rows) :
     \A i, j \in DOMAIN sq : i < j => sq[i].date <= sq[j].date}

\* ORDER BY h.date DESC: rows of equal date come in any order
OrderByDateDesc(rows) ==
  {sq \in Orderings(rows) :
     \A i, j \in DOMAIN sq : i < j => sq[i].date >= sq[j].date}

getStockHistory(p, stock_id) ==
  /\ proc[p].pc = "idle"
  /\ started' = started + 1
  /\ \E rows \in OrderByDateDesc(HistoryOfStock(stock_id)) :
       proc' = [proc EXCEPT ![p] =
         [Finished("getStockHistory", "ok", 0) EXCEPT
            !.target = stock_id,
            !.items = [i \in DOMAIN rows |-> HistoryResultRow(rows[i])]]]
  /\ UNCHANGED <<stock, history, bookings, challans, seq, nextBookingId,
                 items_col, godowns, calc, pdfs>>

NextHistoryRead ==
  \E p \in Procs, stock_id \in StockIds : getStockHistory(p, stock_id)

SpecHistoryRead == InitHistoryRead /\ [][NextHistoryRead]_vars

\* ------------------------------ scenario: the money columns of a booking
\* A bill is created from the plain request and its row is then edited with
\* another request body.  calc.bill["row"] holds the columns of the booking
\* row that the INSERT of createBooking and the UPDATE of editBooking name.
createBooking_Stored ==
  /\ "createBooking" \in DOMAIN calc.bill
  /\ "row" \notin DOMAIN calc.bill
  /\ calc' = [calc EXCEPT !.bill =
       ("row" :>
          [items |-> calc.bill["createBooking"].amounts,
           total |-> calc.bill["createBooking"].total,
           extra_charges |->
             [packing_percent |-> calc.req.packing_percent,
              additional_discount |-> calc.req.additional_discount,
              taxable_value |-> calc.req.taxable_value,
              apply_processing_fee |-> calc.req.apply_processing_fee,
              apply_cgst |-> calc.req.apply_cgst,
              apply_sgst |-> calc.req.apply_sgst,
              apply_igst |-> calc.req.apply_igst],
           additional_discount |-> 0, packing_percent |-> 0,
           taxable_value |-> 0, updated |-> FALSE]) @@ @]
  /\ UNCHANGED Tables

\* the body of an edit request
editBooking_Request(req) ==
  /\ "row" \in DOMAIN calc.bill
  /\ "editBooking" \notin DOMAIN calc.bill
  /\ calc.req = PlainRequest
  /\ calc' = [calc EXCEPT !.req = req]
  /\ UNCHANGED Tables

\* UPDATE public.bookings SET ..., additional_discount, packing_percent,
\* taxable_value, ..., items, updated_at: total and extra_charges are not
\* among the columns
editBooking_Stored ==
  /\ "row" \in DOMAIN calc.bill
  /\ "editBooking" \in DOMAIN calc.bill
  /\ ~calc.bill["row"].updated
  /\ calc' = [calc EXCEPT !.bill["row"] =
       [@ EXCEPT !.items = calc.bill["editBooking"].amounts,
                 !.additional_discount = calc.req.additional_discount,
                 !.packing_percent = calc.req.packing_percent,
                 !.taxable_value = calc.req.taxable_value,
                 !.updated = TRUE]]
  /\ UNCHANGED Tables

NextStored ==
  \/ createBooking_Totals
  \/ createBooking_Stored
  \/ \E req \in Requests : editBooking_Request(req)
  \/ "row" \in DOMAIN calc.bill /\ editBooking_Totals
  \/ editBooking_Stored

SpecStored == Init /\ [][NextStored]_vars

\* ------------------------------------- scenario: the database client
\* The try / catch / finally frame of the five handlers that take a client
\* from the pool: `const client = await pool.connect()`, the try block, which
\* ends by a return or by a throw, the catch block (ROLLBACK, answer 500) and
\* the finally block (client.release()).  client, releases and late of
\* proc[p] follow the client: whether it is held, how often it was released,
\* and whether a statement was sent on it after its release.
ClientHandlers ==
  {"createBooking", "editBooking", "deleteBooking", "convertChallanToBill",
   "takeStockFromGodown"}

\* the answers a handler gives by leaving its try block normally: the
\* validation returns of createBooking and takeStockFromGodown, the
\* `ROLLBACK; return` pairs of takeStockFromGodown, and success after COMMIT
ReturnsOf(op) ==
  CASE op = "createBooking" -> {"invalid", "ok"}
    [] op = "takeStockFromGodown" -> {"invalid", "not_found", "insufficient", "ok"}
    [] OTHER -> {"ok"}

\* client.query(...): a statement sent on a client that is not held is late
Query(r) == [r EXCEPT !.late = @ \/ r.client # "held"]

Handler_Connect(p, op) ==
  /\ proc[p].pc = "idle"
  /\ started' = started + 1
  /\ proc' = [proc EXCEPT ![p] =
       [Idle EXCEPT !.pc = "cl_try", !.op = op, !.client = "held"]]
  /\ UNCHANGED <<stock, history, bookings, challans, seq, nextBookingId,
                 items_col, godowns, calc, pdfs>>

\* the return stands before the try statement: no finally block runs
Handler_ReturnOutsideTry(p, out) ==
  /\ proc[p].pc = "cl_try"
  /\ out \in ReturnsOf(proc[p].op)
  /\ proc' = [proc EXCEPT ![p] =
       [proc[p] EXCEPT !.pc = "done", !.outcome = out]]
  /\ UNCHANGED <<stock, history, bookings, challans, seq, nextBookingId,
                 items_col, godowns, calc, pdfs, started>>

\* a return inside the try block: control passes to the finally block
Handler_Return(p, out) ==
  /\ proc[p].pc = "cl_try"
  /\ out \in ReturnsOf(proc[p].op)
  /\ proc' = [proc EXCEPT ![p] =
       [(IF out = "invalid" THEN proc[p] ELSE Query(proc[p]))
          EXCEPT !.pc = "cl_finally", !.outcome = out]]
  /\ UNCHANGED <<stock, history, bookings, challans, seq, nextBookingId,
                 items_col, godowns, calc, pdfs, started>>

\* a statement, the document generation or an explicit throw ends the try
\* block: control passes to the catch block
Handler_Throw(p) ==
  /\ proc[p].pc = "cl_try"
  /\ proc' = [proc EXCEPT ![p] = [Query(proc[p]) EXCEPT !.pc = "cl_catch"]]
  /\ UNCHANGED <<stock, history, bookings, challans, seq, nextBookingId,
                 items_col, godowns, calc, pdfs, started>>

\* catch (err) { await client.query('ROLLBACK'); res.status(500)... }: when
\* the ROLLBACK itself fails no answer is sent; the finally block runs in
\* both cases
Handler_Catch(p, rollback_fails) ==
  /\ proc[p].pc = "cl_catch"
  /\ proc' = [proc EXCEPT ![p] =
       [Query(proc[p]) EXCEPT
          !.pc = "cl_finally",
          !.outcome = IF rollback_fails THEN "none" ELSE "error"]]
  /\ UNCHANGED <<stock, history, bookings, challans, seq, nextBookingId,
                 items_col, godowns, calc, pdfs, started>>

\* finally { client.release(); }
Handler_Finally(p) ==
  /\ proc[p].pc = "cl_finally"
  /\ proc' = [proc EXCEPT ![p] =
       [proc[p] EXCEPT !.pc = "done", !.client = "released",
                       !.releases = @ + 1]]
  /\ UNCHANGED <<stock, history, bookings, challans, seq, nextBookingId,
                 items_col, godowns, calc, pdfs, started>>

NextClient ==
  \E p \in Procs :
    \/ \E op \in ClientHandlers : Handler_Connect(p, op)
    \/ \E out \in ReturnsOf(proc[p].op) : Handler_Return(p, out)
    \/ Handler_Throw(p)
    \/ \E rollback_fails \in BOOLEAN : Handler_Catch(p, rollback_fails)
    \/ Handler_Finally(p)

SpecClient == Init /\ [][NextClient]_vars

\* ------------------------------------------------------------- properties
Done(p) == proc[p].pc = "done"

\* cases of row s recorded after the start of the model
Added(s) ==
  HistoryCases(history, s, "added") - HistoryCases(InitHistory, s, "added")

Taken(s) ==
  HistoryCases(history, s, "taken") - HistoryCases(InitHistory, s, "taken")

BaseCases(s) == IF s \in DOMAIN InitStock THEN InitStock[s].current_cases ELSE 0

\* C1: in every reachable state every stock row, in its committed version and
\* in the version an open transaction has written, has current_cases >= 0.
NonNegativeStock ==
  /\ \A s \in DOMAIN stock : stock[s].current_cases >= 0
  /\ \A p \in Procs : \A s \in DOMAIN proc[p].wstock :
       proc[p].wstock[s].current_cases >= 0

\* a row has been emptied by deductions and a later request for it was refused
NonNegativeWitness ==
  /\ \E s \in DOMAIN stock : stock[s].current_cases = 0 /\ Taken(s) > 0
  /\ \E p \in Procs : Done(p) /\ proc[p].outcome = "insufficient"

\* C2: for every stock row, current_cases equals its initial current_cases
\* plus the cases of its 'added' history entries minus the cases of its
\* 'taken' history entries, in every committed state.
Conservation ==
  \A s \in DOMAIN stock :
    stock[s].current_cases = BaseCases(s) + Added(s) - Taken(s)

\* C3: when createBooking fails on line item k with insufficient stock, the
\* step that ends it leaves the committed stock rows, the history and the
\* bookings as they are and drops what items 1..k-1 wrote; and until then the
\* committed version of every row the call has written is still the version
\* the call first read.
AtomicAbort ==
  [][\A p \in Procs :
       (proc[p].op = "createBooking" /\ proc[p].pc = "cb_items") =>
         /\ \A s \in DOMAIN proc[p].wstock :
              /\ stock[s].current_cases =
                   proc[p].wstock[s].current_cases + SumCases(proc[p].whist, s, "taken")
              /\ stock[s].taken_cases =
                   proc[p].wstock[s].taken_cases - SumCases(proc[p].whist, s, "taken")
         /\ (proc'[p].pc = "done" /\ proc'[p].outcome = "insufficient") =>
              /\ stock' = stock
              /\ history' = history
              /\ bookings' = bookings
              /\ proc'[p].wstock = EmptyRows
              /\ proc'[p].whist = <<>>]_vars

\* a createBooking call has failed on its second line item after deducting
\* for the first, and the stock is what it was
AtomicAbortWitness ==
  \E p \in Procs :
    /\ Done(p) /\ proc[p].op = "createBooking"
    /\ proc[p].outcome = "insufficient" /\ proc[p].failed_at = 2
    /\ stock = InitStock /\ history = InitHistory /\ bookings = InitBookings

\* C4: after a direct bill has been created, edited to other items and
\* deleted, every stock row has the current_cases and taken_cases it had
\* before the creation.
RoundTripRestores ==
  (started = 3 /\ Done("p1") /\ proc["p1"].op = "deleteBooking"
     /\ proc["p1"].outcome = "ok") =>
    \A s \in DOMAIN InitStock :
      /\ stock[s].current_cases = InitStock[s].current_cases
      /\ stock[s].taken_cases = InitStock[s].taken_cases

\* C5: two concurrent direct createBooking calls that together ask more of
\* stock row 1 than it holds never make current_cases negative, never both
\* succeed, and unless one of them is aborted by a failing statement at least
\* one fails with insufficient stock.
NoOversell ==
  /\ \A s \in DOMAIN stock : stock[s].current_cases >= 0
  /\ ~(\A p \in Procs : Done(p) /\ proc[p].outcome = "ok")
  /\ (\A p \in Procs : Done(p) /\ proc[p].outcome # "error") =>
       \E p \in Procs : proc[p].outcome = "insufficient"

\* one call took its 7 cases, the other was refused
NoOversellWitness ==
  /\ \E p \in Procs : Done(p) /\ proc[p].outcome = "ok"
  /\ \E p \in Procs : Done(p) /\ proc[p].outcome = "insufficient"
                      /\ proc[p].failed_at = 1
  /\ stock[1].current_cases = 3

\* bookings that convertChallanToBill inserted for challan c
ConvertedBookings(c) ==
  {row \in bookings : row.challan_number = challans[c].challan_number}

ConvertCalls == {p \in Procs : Done(p) /\ proc[p].op = "convertChallanToBill"}

\* C6: two convertChallanToBill calls for challan 1, one after the other or
\* interleaved, never leave more than one booking for it; when both have
\* answered and no statement failed, exactly one succeeded, the other failed
\* as not found or already converted, and exactly one booking exists.
ConversionExclusive ==
  /\ Cardinality(ConvertedBookings(1)) <= 1
  /\ (ConvertCalls = Procs /\ \A p \in Procs : proc[p].outcome # "error") =>
       /\ Cardinality({p \in Procs : proc[p].outcome = "ok"}) = 1
       /\ Cardinality({p \in Procs :
                         proc[p].outcome = "not_found_or_converted"}) = 1
       /\ Cardinality(ConvertedBookings(1)) = 1
       /\ challans[1].converted_to_bill

\* both calls have answered: one converted the challan, the other was refused
ConversionExclusiveWitness ==
  /\ ConvertCalls = Procs
  /\ \E p \in Procs : proc[p].outcome = "ok"
  /\ \E p \in Procs : proc[p].outcome = "not_found_or_converted"
  /\ Cardinality(ConvertedBookings(1)) = 1

\* bookings created from challan c by either handler
ChallanBookings(c) ==
  {row \in bookings : row.from_challan /\ row.src_challan = c}

\* C7: converted_to_bill of a challan never goes back to false (so it turns
\* true at most once) and at most one booking is ever created for a challan.
ChallanBilledOnce ==
  /\ [][\A c \in DOMAIN challans :
          challans[c].converted_to_bill => challans'[c].converted_to_bill]_vars
  /\ [](\A c \in DOMAIN challans : Cardinality(ChallanBookings(c)) <= 1)

\* C8: no two booking rows share a bill_number.
BillNumbersUnique ==
  \A r1, r2 \in bookings : r1.id # r2.id => r1.bill_number # r2.bill_number

\* C9: two createBooking calls that are under way at the same time hold
\* different bill numbers.
DistinctBillNumbers ==
  \A p, q \in Procs :
    (p # q /\ proc[p].pc \in {"cb_items", "lcb_items"}
           /\ proc[q].pc \in {"cb_items", "lcb_items"})
      => proc[p].bill # proc[q].bill

\* C10: a successful deduction of c cases from a stock row sets current_cases
\* to its old value minus c and taken_cases to its old value plus c and
\* appends one 'taken' history entry for the row with cases = c and
\* per_case_total = c times the per_case of the stock row; in createBooking
\* and editBooking (the entry is appended to the transaction's writes) and in
\* takeStockFromGodown (the entry is committed in the same step).
DeductionExact ==
  [][\A p \in Procs :
       /\ (proc[p].pc \in {"cb_items", "eb_items"}
             /\ proc'[p].pc = proc[p].pc
             /\ Len(proc'[p].whist) = Len(proc[p].whist) + 1) =>
            LET e == proc'[p].whist[Len(proc'[p].whist)]
                old == RowSeen(p, e.stock_id)
                new == proc'[p].wstock[e.stock_id]
            IN /\ e.action = "taken"
               /\ new.current_cases = old.current_cases - e.cases
               /\ new.taken_cases = old.taken_cases + e.cases
               /\ e.per_case_total = e.cases * old.per_case
       /\ (proc'[p] # proc[p] /\ proc'[p].op = "takeStockFromGodown"
             /\ proc'[p].outcome = "ok") =>
            /\ BagCardinality(history') = BagCardinality(history) + 1
            /\ LET e == CHOOSE x \in BagToSet(history') :
                          CopiesIn(x, history') = CopiesIn(x, history) + 1
                   old == stock[e.stock_id]
                   new == stock'[e.stock_id]
               IN /\ e.action = "taken"
                  /\ new.current_cases = old.current_cases - e.cases
                  /\ new.taken_cases = old.taken_cases + e.cases
                  /\ e.per_case_total = e.cases * old.per_case]_vars

\* p's handler has just answered with outcome out
Answers(p, out) ==
  proc'[p] # proc[p] /\ proc'[p].pc = "done" /\ proc'[p].outcome = out

\* C11: a deduction (a line item of a direct createBooking or of editBooking,
\* or takeStockFromGodown) is refused as insufficient exactly when the cases
\* asked exceed the row's current_cases, and as not found exactly when the
\* row does not exist; a refusal leaves the committed rows and the history
\* as they are and keeps none of the call's writes; a request that is not
\* refused lowers current_cases by the cases asked (to 0 when it asks for all).
DeductionRefusal ==
  [][\A p \in Procs :
       /\ \A item \in DeductItems :
            (\/ proc[p].shouldDeductStock /\ createBooking_Item(p, item)
             \/ editBooking_Item(p, item)) =>
              LET exists == item.id \in DOMAIN stock
                  current == IF exists THEN RowSeen(p, item.id).current_cases ELSE 0
                  refused == Answers(p, "insufficient") \/ Answers(p, "not_found")
              IN /\ Answers(p, "not_found") <=> ~exists
                 /\ Answers(p, "insufficient") <=> (exists /\ item.cases > current)
                 /\ refused => /\ stock' = stock /\ history' = history
                               /\ proc'[p].wstock = EmptyRows
                               /\ proc'[p].whist = <<>>
                 /\ ~refused =>
                      proc'[p].wstock[item.id].current_cases = current - item.cases
       /\ \A s \in {2, 3}, c \in TakeCases :
            takeStockFromGodown(p, s, c, FALSE) =>
              LET exists == s \in DOMAIN stock
                  current == IF exists THEN stock[s].current_cases ELSE 0
                  refused == proc'[p].outcome \in {"insufficient", "not_found"}
              IN /\ proc'[p].outcome = "not_found" <=> ~exists
                 /\ proc'[p].outcome = "insufficient" <=> (exists /\ c > current)
                 /\ refused => stock' = stock /\ history' = history
                 /\ ~refused => stock'[s].current_cases = current - c]_vars

\* a request for exactly the 4 cases of row 2 was served and left 0, and a
\* later request was refused as insufficient
DeductionRefusalWitness ==
  /\ stock[2].current_cases = 0 /\ Taken(2) = 4
  /\ \E p \in Procs : Done(p) /\ proc[p].outcome = "insufficient"

\* C12: a createBooking call that commits a booking with from_challan false
\* has deducted every one of its line items (one 'taken' entry per item,
\* published with the commit), and one that commits a booking with
\* from_challan true changes no stock row and no history entry.
DeductsUnlessFromChallan ==
  [][\A p \in Procs :
       (proc[p].pc = "cb_items" /\ Answers(p, "ok")) =>
         LET b == CHOOSE row \in bookings' \ bookings : TRUE
             w == proc[p].whist
         IN /\ ~b.from_challan =>
                 /\ Len(w) = Len(b.items)
                 /\ \A i \in 1 .. Len(w) :
                      w[i].action = "taken" /\ w[i].cases = b.items[i].cases
                 /\ history' = history (+) Inserted(w)
                 /\ stock' = proc[p].wstock @@ stock
            /\ b.from_challan => stock' = stock /\ history' = history]_vars

\* C13: when createBooking rejects a request for a missing header field or a
\* malformed line item, the request has written no stock row and no history
\* entry before the rejection.
ValidationBeforeMutation ==
  [][\A p \in Procs :
       (proc'[p].op = "createBooking"
          /\ (Answers(p, "invalid") \/ Answers(p, "invalid_item"))) =>
         proc[p].wstock = EmptyRows /\ proc[p].whist = <<>>]_vars

TxOps == {"createBooking", "editBooking", "deleteBooking", "convertChallanToBill"}

\* C14: a step of createBooking, editBooking, deleteBooking or
\* convertChallanToBill other than the one that answers success changes no
\* committed stock row, history entry, booking row or challan; and when the
\* call is ended by a failing statement or document generation, none of the
\* writes it had made is kept.
FailureLeavesNoTrace ==
  [][\A p \in Procs :
       (proc'[p] # proc[p] /\ proc'[p].op \in TxOps /\ ~Answers(p, "ok")) =>
         /\ UNCHANGED <<stock, history, bookings, challans>>
         /\ Answers(p, "error") =>
              proc'[p].wstock = EmptyRows /\ proc'[p].whist = <<>>]_vars

\* an editBooking call failed after it had deducted a line item, and every
\* table is as it was
FailureLeavesNoTraceWitness ==
  /\ \E p \in Procs :
       /\ Done(p) /\ proc[p].op = "editBooking"
       /\ proc[p].outcome = "error" /\ proc[p].failed_at = 2
  /\ stock = InitStock /\ history = InitHistory
  /\ bookings = InitBookings /\ challans = InitChallans

\* C15: every step of a createBooking, editBooking, deleteBooking or
\* convertChallanToBill call either answers success and publishes all of the
\* call's changes together (its stock rows, its history entries and its
\* booking and challan change), or publishes nothing: no step commits only a
\* part of a call's changes.
AllOrNothing ==
  [][\A p \in Procs :
       (proc'[p] # proc[p] /\ proc'[p].op \in TxOps) =>
         IF ~Answers(p, "ok") THEN UNCHANGED <<stock, history, bookings, challans>>
         ELSE
           LET r == proc[p]
               published == /\ stock' = r.wstock @@ stock
                            /\ history' = history (+) Inserted(r.whist)
               inserted == bookings' \ bookings
           IN CASE proc'[p].op = "createBooking" ->
                     /\ published
                     /\ bookings \subseteq bookings' /\ Cardinality(inserted) = 1
                     /\ \A b \in inserted : b.items = r.items
                     /\ (r.from_challan /\ r.challan_id \in DOMAIN challans) =>
                          challans'[r.challan_id].converted_to_bill
                [] proc'[p].op = "editBooking" ->
                     /\ published
                     /\ Cardinality(bookings') = Cardinality(bookings)
                     /\ \A b \in inserted : b.id = r.target /\ b.items = r.items
                     /\ challans' = challans
                [] proc'[p].op = "convertChallanToBill" ->
                     /\ stock' = stock /\ history' = history
                     /\ bookings \subseteq bookings' /\ Cardinality(inserted) = 1
                     /\ challans'[r.target].converted_to_bill
                [] proc'[p].op = "deleteBooking" ->
                     /\ bookings' \subseteq bookings
                     /\ Cardinality(bookings') = Cardinality(bookings) - 1
                     /\ challans' = challans]_vars

\* a direct bill of two line items on two stock rows has been committed: both
\* rows, both history entries and the booking row are there
AllOrNothingWitness ==
  /\ started = 1
  /\ \E p \in Procs : Done(p) /\ proc[p].op = "createBooking" /\ proc[p].outcome = "ok"
  /\ Taken(1) = 7 /\ Taken(2) = 4
  /\ stock[1].current_cases = 3 /\ stock[2].current_cases = 0
  /\ Cardinality(bookings) = 2

\* C16: when editBooking has read the booking and run its restock loop, it
\* has written one restoration per line item of the stored snapshot: an
\* 'added' history entry with the item's cases, and current_cases raised and
\* taken_cases lowered by those cases on the item's stock row; and a later
\* failure of the edit drops the restorations together with the new
\* deductions.
EditRestoresSnapshot ==
  [][\A p \in Procs :
       /\ (proc[p].pc # "eb_items" /\ proc'[p].pc = "eb_items") =>
            LET b == BookingById(proc'[p].target)
                w == proc'[p].whist
            IN /\ Len(w) = Len(b.items)
               /\ \A i \in 1 .. Len(w) :
                    /\ w[i].action = "added" /\ w[i].cases = b.items[i].cases
                    /\ w[i].stock_id \in DOMAIN proc'[p].wstock
               /\ \A s \in DOMAIN proc'[p].wstock :
                    /\ proc'[p].wstock[s].current_cases =
                         stock[s].current_cases + SumCases(w, s, "added")
                    /\ proc'[p].wstock[s].taken_cases =
                         stock[s].taken_cases - SumCases(w, s, "added")
       /\ (proc[p].pc = "eb_items" /\ proc'[p].pc = "done"
             /\ proc'[p].outcome # "ok") =>
            /\ UNCHANGED <<stock, history, bookings>>
            /\ proc'[p].wstock = EmptyRows /\ proc'[p].whist = <<>>]_vars

\* C17: a deleteBooking call that answers success has removed the booking
\* row and its document and has restored every line item of the stored
\* snapshot (one 'added' history entry per item); a deleteBooking call that
\* fails leaves the stock rows, the history, the booking row and the
\* document as they were.
DeleteAllOrNothing ==
  [][\A p \in Procs :
       (proc'[p] # proc[p] /\ proc'[p].op = "deleteBooking") =>
         IF Answers(p, "ok")
         THEN \E row \in bookings :
                /\ bookings' = bookings \ {row}
                /\ row.pdf_path \notin pdfs'
                /\ BagCardinality(history') =
                     BagCardinality(history) + Len(row.items)
                /\ \A e \in BagToSet(history') :
                     CopiesIn(e, history') > CopiesIn(e, history) =>
                       e.action = "added"
         ELSE UNCHANGED <<stock, history, bookings, pdfs>>]_vars

\* C18: no step of a convertChallanToBill call, whether the call succeeds or
\* fails, changes a committed stock row or the stock history, and the call
\* holds no uncommitted stock or history write.
ConversionTouchesNoStock ==
  [][\A p \in Procs :
       (proc'[p] # proc[p] /\ proc'[p].op = "convertChallanToBill") =>
         /\ stock' = stock /\ history' = history
         /\ proc'[p].wstock = EmptyRows /\ proc'[p].whist = <<>>]_vars

\* challan 1 has been converted into a booking after another call changed
\* the stock, and a second conversion has been refused
ConversionTouchesNoStockWitness ==
  /\ challans[1].converted_to_bill /\ Cardinality(ConvertedBookings(1)) = 1
  /\ \E p \in Procs : /\ Done(p) /\ proc[p].op = "convertChallanToBill"
                      /\ proc[p].outcome = "ok"
  /\ \E p \in Procs : /\ Done(p) /\ proc[p].op = "editBooking"
                      /\ proc[p].outcome = "ok"
  /\ Taken(1) = 7

\* C19: the stock history is append-only: no step removes or alters an entry,
\* so every entry present before a step is present, as many times, after it.
HistoryAppendOnly ==
  [][\A e \in BagToSet(history) : CopiesIn(e, history') >= CopiesIn(e, history)]_vars

\* cases that the creation of the booking present at the start added to
\* taken_cases of row s
BookedTaken(s) == HistoryCases(InitHistory, s, "taken")

\* C20: no step leaves taken_cases of a stock row negative, and the restore
\* that editBooking or deleteBooking runs for the booking made at the start
\* lowers taken_cases of each row by exactly what that booking's deduction
\* added to it.
TakenCasesRestored ==
  [][/\ \A s \in DOMAIN stock' : stock'[s].taken_cases >= 0
     /\ \A p \in Procs :
          /\ ( /\ Answers(p, "ok") /\ proc'[p].op = "deleteBooking"
               /\ InitBookings \subseteq bookings
               /\ bookings' = bookings \ InitBookings ) =>
               \A s \in DOMAIN stock :
                 stock'[s].taken_cases = stock[s].taken_cases - BookedTaken(s)
          /\ ( /\ proc[p].pc # "eb_items" /\ proc'[p].pc = "eb_items"
               /\ BookingById(proc'[p].target) \in InitBookings ) =>
               \A s \in DOMAIN stock :
                 BookedTaken(s) > 0 =>
                   /\ s \in DOMAIN proc'[p].wstock
                   /\ proc'[p].wstock[s].taken_cases =
                        stock[s].taken_cases - BookedTaken(s)]_vars

\* C25: no step of an editBooking call, whether the edit commits or is rolled
\* back, changes the bill_number of a booking row or the set of booking ids.
EditKeepsBillNumber ==
  [][\A p \in Procs :
       (proc'[p] # proc[p] /\ proc'[p].op = "editBooking") =>
         {<<row.id, row.bill_number>> : row \in bookings'} =
           {<<row.id, row.bill_number>> : row \in bookings}]_vars

\* an edit of booking 1 has committed new items and a new document, and the
\* row still carries the bill number it was created with
EditKeepsBillNumberWitness ==
  /\ \E p \in Procs : /\ Done(p) /\ proc[p].op = "editBooking"
                      /\ proc[p].outcome = "ok"
  /\ \E row \in bookings :
       /\ row.id = 1 /\ row.pdf_path = EditPdf(1)
       /\ Len(row.items) = 2
       /\ row.bill_number = SequenceBillNumber(1)

\* C26: convertChallanToBill answers a challan id that does not exist with a
\* not-found outcome and a challan that is already converted with an
\* already-converted outcome, two outcomes that differ.
ConversionFailuresDistinct ==
  [][\A p \in Procs, c \in ChallanIds :
       convertChallanToBill_Start(p, c) =>
         /\ c \notin DOMAIN challans => proc'[p].outcome = "not_found"
         /\ (c \in DOMAIN challans /\ challans[c].converted_to_bill) =>
              proc'[p].outcome = "already_converted"]_vars

CasesIn(st, s) == IF s \in DOMAIN st THEN st[s].current_cases ELSE 0

\* C29: the change a step makes to the committed current_cases of a stock
\* row is the cases of the 'added' entries less the cases of the 'taken'
\* entries that the same step adds to the committed history for that row:
\* a change of stock and its history entries become visible together.
StockChangeLogged ==
  [][\A s \in DOMAIN stock' :
       CasesIn(stock', s) - CasesIn(stock, s) =
         (HistoryCases(history', s, "added") - HistoryCases(history, s, "added"))
         - (HistoryCases(history', s, "taken") - HistoryCases(history, s, "taken"))]_vars

\* C30: the current_cases that addStockToExisting or addStockToGodown writes
\* to an existing row is the row's value at the time of the write plus the
\* cases added, so that no deduction made since the handler read the row is
\* lost.
WritesFromLockedRead ==
  [][\A p \in Procs :
       ( /\ proc[p].pc \in {"ae_write", "ag_write"}
         /\ proc'[p].pc \in {"ae_hist", "ag_hist"}
         /\ proc[p].target \in DOMAIN stock ) =>
         stock'[proc[p].target].current_cases =
           stock[proc[p].target].current_cases + proc[p].n]_vars

\* x lies within one half of zero
WithinHalf(x) == 2 * Abs(x.n) <= x.d

\* C21: the amounts createBooking computes for a request: each line amount is
\* cases * per_case * rate_per_box * (1 - discount_percent / 100), the
\* subtotal is their sum and totalCases the sum of the cases; the packing
\* fee is packing_percent of the subtotal when the processing fee is enabled
\* and 0 otherwise; then the flat taxable value is added, additional_discount
\* percent of that running amount is taken off, the tax is added, and the
\* grand total is the nearest integer to the result.
CreateTotalsPipeline ==
  "createBooking" \in DOMAIN calc.bill =>
    LET req == calc.req
        b == calc.bill["createBooking"]
        amount(i) ==
          Times(Times(Whole(req.items[i].cases * req.items[i].per_case),
                      req.items[i].rate_per_box),
                Rat(100 - req.items[i].discount_percent, 100))
        packing == IF req.apply_processing_fee
                   THEN Times(b.subtotal, Rat(req.packing_percent, 100))
                   ELSE Whole(0)
        running == Plus(Plus(b.subtotal, packing), Whole(req.taxable_value))
        net == Times(running, Rat(100 - req.additional_discount, 100))
        tax == Plus(b.igst, Plus(b.cgst, b.sgst))
    IN /\ Len(b.amounts) = Len(req.items)
       /\ \A i \in 1 .. Len(req.items) : b.amounts[i] = amount(i)
       /\ b.subtotal = SumAmounts([i \in 1 .. Len(req.items) |-> amount(i)])
       /\ b.totalCases = TotalCases(req.items)
       /\ b.packingCharges = packing
       /\ b.netTaxable = net
       /\ WithinHalf(Minus(Whole(b.total), Plus(net, tax)))

\* 4 cases of 12 at rate 100 without discount and with the 3% fee enabled:
\* amount 4800 and packing 144
CreateTotalsPipelineWitness ==
  /\ "createBooking" \in DOMAIN calc.bill
  /\ Len(calc.req.items) = 1
  /\ calc.req.apply_processing_fee
  /\ calc.bill["createBooking"].amounts[1] = Whole(4800)
  /\ calc.bill["createBooking"].packingCharges = Whole(144)
  /\ calc.bill["createBooking"].totalCases = 4

\* C22: the tax createBooking adds is IGST alone at 18% of the net taxable
\* amount or CGST and SGST at 9% each, never both kinds, and a component is
\* non-zero only when its own flag is set.
GstExclusive ==
  "createBooking" \in DOMAIN calc.bill =>
    LET req == calc.req
        b == calc.bill["createBooking"]
        zero == Whole(0)
    IN /\ b.igst = zero \/ (b.cgst = zero /\ b.sgst = zero)
       /\ b.igst \in {zero, Times(b.netTaxable, Rat(18, 100))}
       /\ b.cgst \in {zero, Times(b.netTaxable, Rat(9, 100))}
       /\ b.sgst = b.cgst
       /\ b.igst # zero => req.apply_igst
       /\ b.cgst # zero => req.apply_cgst
       /\ b.sgst # zero => req.apply_sgst

\* all three flags are set and the bill carries IGST alone
GstExclusiveWitness ==
  /\ "createBooking" \in DOMAIN calc.bill
  /\ calc.req.apply_igst /\ calc.req.apply_cgst /\ calc.req.apply_sgst
  /\ calc.bill["createBooking"].igst # Whole(0)
  /\ calc.bill["createBooking"].cgst = Whole(0)

\* C23: for every bill, the roundOff handed to the document is the grand
\* total less the unrounded total, so that grandTotal - roundOff gives the
\* unrounded total back, and it lies within one half of zero.
RoundOffRecorded ==
  \A op \in DOMAIN calc.bill :
    LET b == calc.bill[op] IN
    /\ Minus(Whole(b.doc.grandTotal), b.doc.roundOff) = b.unrounded
    /\ WithinHalf(b.doc.roundOff)

\* C24: for the same request, the grand total editBooking computes is the
\* grand total createBooking computes.
EditTotalsAsCreate ==
  {"createBooking", "editBooking"} \subseteq DOMAIN calc.bill =>
    calc.bill["editBooking"].doc.grandTotal =
      calc.bill["createBooking"].doc.grandTotal

\* C27: the bill convertChallanToBill makes of a challan has from_challan
\* set, the challan's number as its bill number, the challan's items in
\* their order with discount_percent 0 and amount cases * per_case * rate,
\* and as grand total the nearest integer to the sum of the amounts, with no
\* packing fee, extra taxable value, additional discount or tax.
ConversionBillPlain ==
  "convertChallanToBill" \in DOMAIN calc.bill =>
    LET challan == calc.req
        b == calc.bill["convertChallanToBill"]
        amount(i) == Times(Whole(challan.items[i].cases * challan.items[i].per_case),
                           challan.items[i].rate_per_box)
        sum == SumAmounts([i \in 1 .. Len(challan.items) |-> amount(i)])
        zero == Whole(0)
    IN /\ b.from_challan
       /\ b.bill_number =
            [prefix |-> "BILL-", digits |-> challan.challan_number.digits]
       /\ Len(b.items) = Len(challan.items)
       /\ \A i \in 1 .. Len(b.items) :
            /\ b.items[i].s_no = i
            /\ b.items[i].cases = challan.items[i].cases
            /\ b.items[i].per_case = challan.items[i].per_case
            /\ b.items[i].rate_per_box = challan.items[i].rate_per_box
            /\ b.items[i].discount_percent = 0
            /\ b.items[i].amount = amount(i)
       /\ b.doc.taxableUsed = sum
       /\ WithinHalf(Minus(Whole(b.doc.grandTotal), sum))
       /\ b.doc.packingCharges = zero /\ b.doc.addlDiscountAmt = zero
       /\ b.doc.cgstAmt = zero /\ b.doc.sgstAmt = zero /\ b.doc.igstAmt = zero

\* a challan of two items, one of them carrying a discount of its own, is
\* billed at 1000 + 10.5 rounded to 1011
ConversionBillPlainWitness ==
  /\ "convertChallanToBill" \in DOMAIN calc.bill
  /\ Len(calc.req.items) = 2
  /\ calc.req.items[1].discount_percent = 10
  /\ calc.bill["convertChallanToBill"].items[1].amount = Whole(1000)
  /\ calc.bill["convertChallanToBill"].doc.grandTotal = 1011

\* C31: createBooking and editBooking take their stock-row locks in the order
\* the line items were submitted: while the item loop of a transaction runs,
\* the rows it has locked are exactly the rows of the items of the request up
\* to the pass it has reached, and no row is locked by two transactions.  Two
\* requests naming the same two rows in opposite orders can so come to wait
\* for each other (LockOrderWitness).
LockOrder ==
  /\ \A p \in Procs :
       proc[p].pc \in {"cb_items", "eb_items"} =>
         LockedRows(p) = {Submitted(p)[k].id : k \in 1..Len(proc[p].items)}
  /\ \A s \in StockIds : Cardinality(LockHolders(s)) <= 1

\* each of the two transactions holds the row the other one's next pass needs,
\* and neither pass can run
LockOrderWitness ==
  /\ \A p \in Procs : proc[p].pc \in {"cb_items", "eb_items"}
  /\ LockedRows("p1") = {1} /\ LockedRows("p2") = {2}
  /\ NextItem("p1") = {Submitted("p1")[2]}
  /\ NextItem("p2") = {Submitted("p2")[2]}
  /\ \A p \in Procs : \A item \in NextItem(p) :
       /\ ~ENABLED createBooking_Item(p, item)
       /\ ~ENABLED editBooking_Item(p, item)

\* the document a transaction of createBooking, editBooking or
\* convertChallanToBill writes
DocumentOf(p) ==
  IF proc[p].op = "editBooking" THEN EditPdf(proc[p].target)
  ELSE BillPdf(proc[p].bill)

\* C32: createBooking, editBooking and convertChallanToBill commit only after
\* the document has been written: a step that changes a committed table or
\* answers success is taken by a request whose document generation has
\* completed, and the stored row names that document.  The document is
\* written only after the item loop: the step that writes it processes no
\* item, and no item is processed after it.
DocumentBeforeCommit ==
  [][\A p \in Procs :
       /\ (proc[p].pc # "done" /\ Answers(p, "ok")) =>
            /\ proc[p].pc \in {"cb_commit", "eb_commit", "cv_commit"}
            /\ DocumentOf(p) \in pdfs
            /\ \E row \in bookings' : row.pdf_path = DocumentOf(p)
       /\ proc'[p] # proc[p] =>
            /\ <<stock, history, bookings, challans>>
                 # <<stock', history', bookings', challans'>> =>
                 proc[p].pc \in {"cb_commit", "eb_commit", "cv_commit"}
            /\ pdfs' # pdfs =>
                 /\ proc[p].pc \in {"cb_items", "eb_items", "cv_finish"}
                 /\ proc'[p].pc \in {"cb_commit", "eb_commit", "cv_commit"}
                 /\ proc[p].op = "createBooking" => Len(proc[p].items) >= 1
                 /\ proc'[p].items = proc[p].items
                 /\ proc'[p].wstock = proc[p].wstock
            /\ proc[p].pc \in {"cb_commit", "eb_commit", "cv_commit"} =>
                 /\ proc'[p].pc = "done"
                 /\ pdfs' = pdfs
     ]_vars

\* a document has been written and its transaction has not committed yet
DocumentBeforeCommitWitness ==
  \E p \in Procs :
    /\ proc[p].pc \in {"cb_commit", "eb_commit", "cv_commit"}
    /\ proc[p].wstock # EmptyRows
    /\ DocumentOf(p) \in pdfs
    /\ \A row \in bookings : row.pdf_path # DocumentOf(p)

\* C33: editBooking of a challan-derived booking (from_challan, whose creation
\* deducted no stock) changes no stock row and writes no history entry.
ChallanBillEditTouchesNoStock ==
  [][\A p \in Procs :
       ( /\ proc[p].pc = "eb_items"
         /\ proc'[p] # proc[p]
         /\ BookingById(proc[p].target).from_challan ) =>
           /\ stock' = stock
           /\ history' = history
     ]_vars

\* the items of a snapshot carry the serial numbers 1, 2, ... in sequence
Numbered(items) == \A i \in DOMAIN items : items[i].s_no = i

\* the snapshot continues another by the cases and per_case of one more item
Continues(after, before) ==
  /\ Len(after) = Len(before) + 1
  /\ SubSeq(after, 1, Len(before)) = before
  /\ \E item \in ItemSet :
       /\ after[Len(after)].cases = item.cases
       /\ after[Len(after)].per_case = item.per_case

\* C34: in every booking snapshot written by createBooking, editBooking or
\* convertChallanToBill the items stand in the order in which they were
\* submitted, and the item at 0-based position i has s_no = i + 1: each pass
\* of the item loop appends its item to the snapshot under the next serial
\* number, the conversion numbers the challan's items in their order, and the
\* row written at the end stores that snapshot.
SerialNumbers ==
  [][\A p \in Procs :
       /\ ( /\ proc[p].pc \in {"cb_items", "eb_items"}
            /\ proc'[p].pc = proc[p].pc
            /\ proc'[p] # proc[p] ) =>
              /\ Continues(proc'[p].items, proc[p].items)
              /\ Numbered(proc'[p].items)
       /\ (proc[p].pc # "cv_finish" /\ proc'[p].pc = "cv_finish") =>
            /\ Numbered(proc'[p].items)
            /\ Len(proc'[p].items) = Len(challans[proc'[p].target].items)
            /\ \A i \in DOMAIN proc'[p].items :
                 /\ proc'[p].items[i].cases
                      = challans[proc'[p].target].items[i].cases
                 /\ proc'[p].items[i].per_case
                      = challans[proc'[p].target].items[i].per_case
       /\ (InTx(p) /\ Answers(p, "ok")) =>
            \E row \in bookings' :
              /\ IF proc[p].op = "editBooking"
                 THEN row.id = proc[p].target
                 ELSE row \notin bookings
              /\ row.items = proc[p].items
              /\ Numbered(row.items)
     ]_vars

\* a committed snapshot of two items, numbered 1 and 2
SerialNumbersWitness ==
  \E row \in bookings, p \in Procs :
    /\ Len(row.items) = 2
    /\ row.items[2].s_no = 2
    /\ proc[p].pc = "done" /\ proc[p].outcome = "ok"
    /\ proc[p].op \in {"createBooking", "editBooking"}

\* C35: getStockHistory(stock_id) answers with exactly the history entries of
\* that stock row, each once, ordered by their timestamp, most recent first.
HistoryMostRecentFirst ==
  \A p \in Procs :
    (proc[p].pc = "done" /\ proc[p].op = "getStockHistory") =>
      LET rows == proc[p].items
          mine == {h \in BagToSet(history) : h.stock_id = proc[p].target}
      IN /\ {rows[i].id : i \in DOMAIN rows} = {h.id : h \in mine}
         /\ Len(rows) = Cardinality(mine)
         /\ \A i \in DOMAIN rows :
              \E h \in mine : /\ h.id = rows[i].id
                              /\ h.date = rows[i].date
                              /\ h.cases = rows[i].cases
                              /\ h.action = rows[i].action
         /\ \A i, j \in DOMAIN rows : i < j => rows[i].date >= rows[j].date

\* a row's history with entries of two instants was read while the table also
\* held an entry of another row
HistoryMostRecentFirstWitness ==
  \E p \in Procs :
    /\ proc[p].pc = "done" /\ proc[p].op = "getStockHistory"
    /\ Len(proc[p].items) >= 2
    /\ proc[p].items[1].date > proc[p].items[Len(proc[p].items)].date
    /\ \E h \in BagToSet(history) : h.stock_id # proc[p].target

\* C36: a committed edit of a direct-sale booking to the items it already
\* stores leaves current_cases and taken_cases of every stock row as they
\* were before the edit.
SameItemsEditKeepsStock ==
  [][\A p \in Procs :
       ( /\ proc[p].pc = "eb_items"
         /\ proc'[p] # proc[p]
         /\ proc'[p].pc = "done"
         /\ proc'[p].outcome = "ok"
         /\ ~BookingById(proc[p].target).from_challan
         /\ proc[p].items = BookingById(proc[p].target).items ) =>
           stock' = stock
     ]_vars

\* C37: after editBooking has written the row, the row's stored total is the
\* grand total the edit computed and its settings blob (extra_charges) holds
\* the discount, packing and taxable settings of the edit.
EditStoresTotal ==
  ("row" \in DOMAIN calc.bill /\ calc.bill["row"].updated) =>
    LET row == calc.bill["row"] IN
    /\ row.total = calc.bill["editBooking"].doc.grandTotal
    /\ row.extra_charges.additional_discount = calc.req.additional_discount
    /\ row.extra_charges.packing_percent = calc.req.packing_percent
    /\ row.extra_charges.taxable_value = calc.req.taxable_value

\* C38: the document editBooking regenerates carries the bill number stored
\* in the booking row, whether the row was created by createBooking or by
\* convertChallanToBill.
EditDocumentBillNumber ==
  \A p \in Procs :
    proc[p].pc = "eb_commit" =>
      proc[p].bill = BookingById(proc[p].target).bill_number

\* C39: in every reachable state each booking row has a document at its
\* pdf_path, also after a deleteBooking that failed.
EveryBookingHasDocument ==
  \A row \in bookings : row.pdf_path \in pdfs

\* C40: every database client acquired by createBooking, editBooking,
\* deleteBooking, convertChallanToBill or takeStockFromGodown is released
\* exactly once on every path (validation return, commit, rollback), and no
\* ROLLBACK or other statement is sent on a client after its release.
ClientReleasedOnce ==
  \A p \in Procs :
    /\ ~proc[p].late
    /\ proc[p].releases <= 1
    /\ proc[p].pc \in {"cl_try", "cl_catch", "cl_finally"} =>
         proc[p].client = "held" /\ proc[p].releases = 0
    /\ (proc[p].pc = "done" /\ proc[p].op \in ClientHandlers) =>
         proc[p].client = "released" /\ proc[p].releases = 1

\* one handler has left by its validation return and one through its catch
\* block, and both have released their clients
ClientReleasedOnceWitness ==
  /\ \E p \in Procs : /\ proc[p].pc = "done" /\ proc[p].outcome = "invalid"
                      /\ proc[p].releases = 1
  /\ \E p \in Procs : /\ proc[p].pc = "done" /\ proc[p].outcome = "error"
                      /\ proc[p].releases = 1

====
